---- MODULE Spec2Model ----
(***************************************************************************)
(* State-machine model of source/utils/udp_log_listener.py: the UDP log    *)
(* listener of EnergyMe-Home (LogFilter, SyslogParser, UDPLogListener).    *)
(*                                                                         *)
(* Strings the program inspects (device ids, session keys, function and    *)
(* message texts) are sequences of tokens, so that prefix and substring    *)
(* tests are computed and not assumed.  Python dicts are functions whose   *)
(* DOMAIN is the set of keys present.                                      *)
(***************************************************************************)
EXTENDS Integers, Sequences, FiniteSets, TLC

(***************************************************************************)
(* Bounds of the model.                                                    *)
(***************************************************************************)
\* the number of datagrams the network delivers in one run
MaxMsgs == 3
\* the wall clock runs over 0 .. MaxClock (seconds)
MaxClock == 1

(***************************************************************************)
(* Program constants.                                                      *)
(***************************************************************************)
\* current millis < 10 minutes
TenMinutes == 600000
\* last millis > 30 minutes
ThirtyMinutes == 1800000
\* the MAC-like part: 12 hex characters
MacLen == 12

\* the restart announcement of the firmware
Marker == <<"Guess", "who's", "back">>

HexLower == {"0", "1", "2", "3", "4", "5", "6", "7", "8", "9",
             "a", "b", "c", "d", "e", "f"}

Unknown == <<"u", "n", "k", "n", "o", "w", "n">>

(***************************************************************************)
(* Text helpers.                                                           *)
(***************************************************************************)
\* Python: p.startswith-style prefix test, s.startswith(p)
StartsWith(s, p) ==
    /\ Len(s) >= Len(p)
    /\ SubSeq(s, 1, Len(p)) = p

\* Python: sub in s
Contains(s, sub) ==
    \E i \in 1..(Len(s) - Len(sub) + 1) : SubSeq(s, i, i + Len(sub) - 1) = sub

\* str.lower() on the tokens the model uses
LowerTok(t) ==
    CASE t = "INFO" -> "info"
      [] t = "Info" -> "info"
      [] t = "DEBUG" -> "debug"
      [] t = "WARNING" -> "warning"
      [] t = "Warning" -> "warning"
      [] t = "ERROR" -> "error"
      [] t = "FATAL" -> "fatal"
      [] t = "VERBOSE" -> "verbose"
      [] t = "TRACE" -> "trace"
      [] t = "Loop" -> "loop"
      [] t = "SRC/MAIN.CPP" -> "src/main.cpp"
      [] t = "A" -> "a"
      [] t = "B" -> "b"
      [] t = "C" -> "c"
      [] t = "D" -> "d"
      [] t = "E" -> "e"
      [] t = "F" -> "f"
      [] OTHER -> t

\* str.upper() on the tokens the model uses
UpperTok(t) ==
    CASE t = "info" -> "INFO"
      [] t = "Info" -> "INFO"
      [] t = "debug" -> "DEBUG"
      [] t = "warning" -> "WARNING"
      [] t = "Warning" -> "WARNING"
      [] t = "error" -> "ERROR"
      [] t = "fatal" -> "FATAL"
      [] t = "verbose" -> "VERBOSE"
      [] t = "trace" -> "TRACE"
      [] OTHER -> t

LowerSeq(s) == [i \in 1..Len(s) |-> LowerTok(s[i])]

\* Op applied to the value of v: what a step leaves is computed once and
\* handed to the step that follows it
Then(v, Op(_)) == CHOOSE r \in {Op(x) : x \in {v}} : TRUE

(***************************************************************************)
(* Dict helpers.                                                           *)
(***************************************************************************)
\* d[k] = v
Put(d, k, v) == [x \in (DOMAIN d) \cup {k} |-> IF x = k THEN v ELSE d[x]]

\* d.pop(k, None) / del d[k]
Pop(d, k) == [x \in (DOMAIN d) \ {k} |-> d[x]]

EmptyDict == [x \in {} |-> 0]

(***************************************************************************)
(* LogFilter.                                                              *)
(***************************************************************************)
\* mutant: a level that LEVELS does not know is ordered as the highest
LevelValueUnknownHighest(level) ==
    LET l == LowerTok(level)
    IN CASE l = "verbose" -> 0
         [] l = "debug" -> 1
         [] l = "info" -> 2
         [] l = "warning" -> 3
         [] l = "error" -> 4
         [] l = "fatal" -> 5
         [] OTHER -> 5

\* LogFilter.LEVELS.get(level.lower(), 0)
LevelValue(level) ==
    LET l == LowerTok(level)
    IN CASE l = "verbose" -> 0
         [] l = "debug" -> 1
         [] l = "info" -> 2
         [] l = "warning" -> 3
         [] l = "error" -> 4
         [] l = "fatal" -> 5
         [] OTHER -> 0

\* LogFilter.__init__: the threshold's value and the lower-cased exclusions
MakeFilter(min_level, exclude_files, exclude_functions) ==
    [min_level_value |-> LevelValue(min_level),
     exclude_files |-> {LowerSeq(f) : f \in exclude_files},
     exclude_functions |-> {LowerSeq(f) : f \in exclude_functions}]

\* mutant: a record at the threshold is suppressed too
ShouldShowAbove(flt, level, function) ==
    /\ ~(LevelValue(level) <= flt.min_level_value)
    /\ ~(/\ function # <<>>
         /\ \E x \in flt.exclude_functions : Contains(LowerSeq(function), x))
    /\ ~(/\ function # <<>>
         /\ \E x \in flt.exclude_files : Contains(LowerSeq(function), x))

\* LogFilter.should_show
ShouldShow(flt, level, function) ==
    /\ ~(LevelValue(level) < flt.min_level_value)
    /\ ~(/\ function # <<>>
         /\ \E x \in flt.exclude_functions : Contains(LowerSeq(function), x))
    /\ ~(/\ function # <<>>
         /\ \E x \in flt.exclude_files : Contains(LowerSeq(function), x))

(***************************************************************************)
(* SyslogParser.  A datagram is the text of one UDP packet, given by the   *)
(* groups the pattern would capture: ok says whether the text matches      *)
(* SYSLOG_PATTERN, dev is <<>> when the optional device group is absent.   *)
(***************************************************************************)
Datagram(ok, dev, millis, level, core, func, msg) ==
    [ok |-> ok, priority |-> 14, timestamp |-> "2025-01-01T00:00:00.000Z",
     dev |-> dev, millis |-> millis, level |-> level, core |-> core,
     func |-> func, msg |-> msg]

\* the numbers that occur in the datagrams of the model
Numerals ==
    {0, 1, 14, 16, 5000, 50000, 60000, 70000, 100000, 599999, 600000,
     1800000, 1800001, 2000000}

\* str(n): the decimal form of a number
Decimal == [n \in Numerals |-> ToString(n)]

\* \d+ : the token is the decimal form of a number
IsDigits(t) == \E n \in Numerals : Decimal[n] = t

\* int(t)
IntOf(t) == CHOOSE n \in Numerals : Decimal[n] = t

\* \d{4}-\d{2}-\d{2}T\d{2}:\d{2}:\d{2}\.\d+Z : the tokens of that form
Timestamps == {"2025-01-01T00:00:00.000Z", "2025-08-08T18:36:33.275Z"}

\* \s : a token that is a run of white space
Spaces == {" ", "  ", "\n"}

\* [a-fA-F0-9]
HexChars == HexLower \cup {"A", "B", "C", "D", "E", "F"}

\* the text of a datagram, as the firmware writes the fields d into it:
\* <priority>timestamp device[millis]: [level][CoreN] function: message;
\* a datagram that is not of this form is its text
Wire(d) ==
    IF d.ok
    THEN <<"<", Decimal[d.priority], ">", d.timestamp, " ">> \o d.dev
         \o <<"[", Decimal[d.millis], "]", ":", " ",
              "[", d.level, "]", "[", "Core", Decimal[d.core], "]", " ">>
         \o d.func \o <<":", " ">> \o d.msg
    ELSE d.msg

\* str.strip(): the text without the white space at its ends
Strip(s) ==
    IF \A i \in 1..Len(s) : s[i] \in Spaces
    THEN <<>>
    ELSE SubSeq(s, CHOOSE i \in 1..Len(s) :
                      /\ s[i] \notin Spaces
                      /\ \A j \in 1..(i - 1) : s[j] \in Spaces,
                   CHOOSE i \in 1..Len(s) :
                      /\ s[i] \notin Spaces
                      /\ \A j \in (i + 1)..Len(s) : s[j] \in Spaces)

\* the length of the run of hexadecimal characters of t that starts at i
HexRun(t, i) ==
    CHOOSE n \in 0..(Len(t) - i + 1) :
       /\ \A j \in i..(i + n - 1) : t[j] \in HexChars
       /\ i + n <= Len(t) => t[i + n] \notin HexChars

\* mutant: the function is matched greedily, up to the last ":"
FirstColonGreedy(t, i) ==
    IF \E j \in i..Len(t) : t[j] = ":"
    THEN CHOOSE j \in i..Len(t) : t[j] = ":" /\ \A k \in (j + 1)..Len(t) : t[k] # ":"
    ELSE 0

\* the position of the first ":" of t at or after i, 0 when there is none
FirstColon(t, i) ==
    IF \E j \in i..Len(t) : t[j] = ":"
    THEN CHOOSE j \in i..Len(t) : t[j] = ":" /\ \A k \in i..(j - 1) : t[k] # ":"
    ELSE 0

\* no match: only the text is known
NoMatch(t) ==
    [ok |-> FALSE, priority |-> 0, timestamp |-> "", dev |-> <<>>, millis |-> 0,
     level |-> "", core |-> 0, func |-> <<>>, msg |-> t]

\* SYSLOG_PATTERN from "[millis]" on: p is the position of its "[", c the
\* position of the ":" that ends the function
MatchFrom(t, p, c) ==
    IF /\ c > p + 13
       /\ c + 2 <= Len(t)
       /\ t[p] = "["
       /\ IsDigits(t[p + 1])
       /\ t[p + 2] = "]"
       /\ t[p + 3] = ":"
       /\ t[p + 4] \in Spaces
       /\ t[p + 5] = "["
       /\ t[p + 6] # "]"
       /\ t[p + 7] = "]"
       /\ t[p + 8] = "["
       /\ t[p + 9] = "Core"
       /\ IsDigits(t[p + 10])
       /\ t[p + 11] = "]"
       /\ t[p + 12] \in Spaces
       /\ t[c + 1] \in Spaces
       /\ t[c + 2] \notin Spaces
    THEN [ok |-> TRUE, priority |-> IntOf(t[2]), timestamp |-> t[4],
          dev |-> SubSeq(t, 6, p - 1), millis |-> IntOf(t[p + 1]),
          level |-> t[p + 6], core |-> IntOf(t[p + 10]),
          func |-> SubSeq(t, p + 13, c - 1),
          msg |-> SubSeq(t, c + 2, Len(t))]
    ELSE NoMatch(t)

\* SYSLOG_PATTERN.match(message.strip()) and match.groups(); the groups of
\* digits are given by their value, as parse converts them with int()
MatchPattern(text) ==
    IF /\ Len(text) >= 6
       /\ text[1] = "<"
       /\ IsDigits(text[2])
       /\ text[3] = ">"
       /\ text[4] \in Timestamps
       /\ text[5] \in Spaces
    THEN Then(6 + HexRun(text, 6),
              LAMBDA p : Then(FirstColon(text, p + 13),
                              LAMBDA c : MatchFrom(text, p, c)))
    ELSE NoMatch(text)

\* SyslogParser.parse
Parse(dg) ==
    IF ~dg.ok
    THEN [matched |-> FALSE, priority |-> 0, timestamp |-> "", device |-> <<>>,
          millis |-> 0, level |-> "", core |-> 0, function |-> <<>>,
          message |-> <<>>]
    ELSE [matched |-> TRUE,
          priority |-> dg.priority,
          timestamp |-> dg.timestamp,
          device |-> IF dg.dev # <<>> THEN dg.dev ELSE Unknown,
          millis |-> dg.millis,
          level |-> LowerTok(dg.level),
          core |-> dg.core,
          function |-> Strip(dg.func),
          message |-> Strip(dg.msg)]

(***************************************************************************)
(* Device ids, session keys and file paths.                                *)
(***************************************************************************)
\* the characters \w, "-" and "_" keep in the fallback of _extract_device_id
WordChars ==
    HexLower \cup {"A", "B", "C", "D", "E", "F", "u", "n", "k", "o", "w", "_", "-"}

\* UDPLogListener._extract_device_id
ExtractDeviceId(s) ==
    IF /\ Len(s) >= MacLen
       /\ \A i \in (Len(s) - MacLen + 1)..Len(s) : s[i] \in HexLower
    THEN SubSeq(s, Len(s) - MacLen + 1, Len(s))
    ELSE [i \in 1..Len(s) |-> IF s[i] \in WordChars THEN s[i] ELSE "_"]

\* datetime.now().strftime("%Y%m%d_%H%M%S"): one-second resolution
SessionTimestamp(now) == <<"date", "_", ToString(now)>>

\* f"{actual_device_id}_{session_id}"
SessionKey(id, session_id) == id \o <<"_">> \o session_id

\* os.path.join("logs", f"energyme_{session_key}.txt")
FilePath(session_key) == <<"logs/", "energyme_">> \o session_key \o <<".txt">>

\* mutant: the 30-minute threshold is not strict
MillisResetNotStrict(current_millis, last_millis) ==
    /\ current_millis < TenMinutes
    /\ last_millis >= ThirtyMinutes
    /\ current_millis < last_millis

\* the millis-reset test of _get_device_log_file
MillisReset(current_millis, last_millis) ==
    /\ current_millis < TenMinutes
    /\ last_millis > ThirtyMinutes
    /\ current_millis < last_millis

(***************************************************************************)
(* Lines of a per-device file, console lines and handler events.           *)
(***************************************************************************)
Line(k, dev, time, millis, level, core, func, msg, reason, sess) ==
    [k |-> k, dev |-> dev, time |-> time, millis |-> millis, level |-> level,
     core |-> core, func |-> func, msg |-> msg, reason |-> reason, sess |-> sess]

HeaderLine(k, dev, time, reason, sess) ==
    Line(k, dev, time, 0, "", 0, <<>>, <<>>, reason, sess)

\* a line printed on the console: a notice, or a displayed record
Console(k, dev, millis, hasDelta, delta) ==
    [k |-> k, dev |-> dev, millis |-> millis, hasDelta |-> hasDelta, delta |-> delta]

Notice(k, dev) == Console(k, dev, 0, FALSE, 0)

\* one step of a handler, in program order
Event(e, key) == [e |-> e, key |-> key]

(***************************************************************************)
(* State.                                                                  *)
(***************************************************************************)
VARIABLES
    pc,                 \* where the process is: init, setup, loop, recv, handle, ended, exited
    running,            \* self.running, the flag the signal handler clears
    message_count,      \* _listen_loop's message_count
    message,            \* the text of the datagram received last
    dgram,              \* the groups SYSLOG_PATTERN finds in message
    auto_device_logs,   \* self.auto_device_logs
    log_filter,         \* self.filter
    log_file,           \* self.log_file is set
    log_format,         \* self.log_format
    file_handle,        \* self.file_handle: "None", "open" or "closed"
    device_files,       \* self.device_files: session key -> open handle
    device_last_millis, \* self.device_last_millis
    device_session_ids, \* self.device_session_ids
    device_last_display_millis, \* self.device_last_display_millis
    stats,              \* self.stats
    disk,               \* the per-device files: path -> lines
    logs_dir,           \* the directory logs exists
    clog,               \* the lines of the consolidated log file
    clock,              \* the wall clock, in seconds
    out,                \* what the last step printed
    printed,            \* the kinds of line printed so far
    ev,                 \* the file and display steps of the last handled datagram
    sessNo,             \* history: device id -> number of sessions inferred
    nOpens,             \* history: number of per-device files opened
    shown,              \* history: device id -> millis of the record displayed last
    byReboot,           \* history: device id -> its session began with an inferred reboot
    scenario            \* which datagrams and failures the environment offers

vars == <<pc, running, message_count, message, dgram, auto_device_logs, log_filter,
          log_file, log_format, file_handle, device_files, device_last_millis,
          device_session_ids, device_last_display_millis, stats, disk, logs_dir,
          clog, clock, out, printed, ev, sessNo, nOpens, shown, byReboot, scenario>>

NoDatagram == Datagram(FALSE, <<>>, 0, "", 0, <<>>, <<>>)

(***************************************************************************)
(* The handlers.  A handler works on a store S, the record of the          *)
(* listener's fields and of the file system, and yields the store it       *)
(* leaves: files = device_files, lm = device_last_millis, sid =            *)
(* device_session_ids, ldm = device_last_display_millis.  F is the set of  *)
(* file operations that fail while this datagram is handled, now the wall  *)
(* clock.  ret is the value returned (<<>> for None), raised says an       *)
(* exception left the handler.                                             *)
(*                                                                         *)
(* sessNo, the sess field of handles and lines, and nOpens are history     *)
(* variables: the ordinal of the device's inferred session, the session a  *)
(* handle or line belongs to, and the number of files opened so far.       *)
(***************************************************************************)
\* print(...)
Say(S, k, dev) ==
    [S EXCEPT !.out = Append(@, Notice(k, dev)), !.printed = @ \cup {k}]

Did(S, e, key) == [S EXCEPT !.ev = Append(@, Event(e, key))]

\* "Guess who's back" in parsed['message']
ByMarker(parsed) == Contains(parsed.message, Marker)

\* mutant: a device not seen before counts as seen long ago
ByMillisOrFirst(lm, parsed) ==
    /\ ~ByMarker(parsed)
    /\ IF ExtractDeviceId(parsed.device) \in DOMAIN lm
       THEN MillisReset(parsed.millis, lm[ExtractDeviceId(parsed.device)])
       ELSE parsed.millis < TenMinutes

\* the elif branch of the reboot test: a last_millis is recorded for the
\* device and the millis were reset
ByMillis(lm, parsed) ==
    /\ ~ByMarker(parsed)
    /\ ExtractDeviceId(parsed.device) \in DOMAIN lm
    /\ MillisReset(parsed.millis, lm[ExtractDeviceId(parsed.device)])

\* mutant: the marker phrase is not looked for
IsRebootMillisOnly(lm, parsed) ==
    /\ ExtractDeviceId(parsed.device) \in DOMAIN lm
    /\ MillisReset(parsed.millis, lm[ExtractDeviceId(parsed.device)])

\* is_reboot
IsReboot(lm, parsed) == ByMarker(parsed) \/ ByMillis(lm, parsed)

\* reboot_reason
RebootReason(lm, parsed) ==
    IF ByMarker(parsed) THEN "guess_whos_back"
    ELSE IF ByMillis(lm, parsed) THEN "millis_reset" ELSE ""

\* mutant: the millis displayed last are kept when a reboot is inferred
TrackMillisKeepsDisplayed(S, id, current_millis, is_reboot) ==
    Did([S EXCEPT !.lm = Put(@, id, current_millis)], "track", id)

\* mutant: the millis seen last are not updated when a reboot is inferred
TrackMillisOfContinuation(S, id, current_millis, is_reboot) ==
    Did([S EXCEPT !.lm = IF is_reboot THEN @ ELSE Put(@, id, current_millis),
                  !.ldm = IF is_reboot THEN Pop(@, id) ELSE @],
        "track", id)

\* "Update last seen millis" and "Reset delta tracking on reboot"
TrackMillis(S, id, current_millis, is_reboot) ==
    Did([S EXCEPT !.lm = Put(@, id, current_millis),
                  !.ldm = IF is_reboot THEN Pop(@, id) ELSE @],
        "track", id)

\* mutant: the handle closed on a rotation is the first of the map, whatever
\* device it belongs to
OldSessionKeysOfAnyDevice(files, id) == DOMAIN files

\* the keys of device_files that start with f"{actual_device_id}_"
OldSessionKeys(files, id) ==
    {k \in DOMAIN files : StartsWith(k, id \o <<"_">>)}

\* mutant: the closed handle stays in device_files
CloseOldSessionKeepsEntry(S, old_session_key) == Did(S, "close", old_session_key)

\* file.close() of a rotated-out session: the handle leaves device_files
CloseOldSession(S, old_session_key) ==
    Did([S EXCEPT !.files = Pop(@, old_session_key)], "close", old_session_key)

\* mutant: the old session's file is left open
CloseExistingNot(S, id, is_reboot) == S

\* "Close existing file if it exists"
CloseExisting(S, id, is_reboot) ==
    IF OldSessionKeys(S.files, id) = {}
    THEN S
    ELSE Say(CloseOldSession(S, CHOOSE k \in OldSessionKeys(S.files, id) : TRUE),
             IF is_reboot THEN "reboot_detected" ELSE "new_device", id)

\* "Create new session ID"
AllocateSession(S, id, now) ==
    [S EXCEPT !.sid = Put(@, id, SessionTimestamp(now)),
              !.sessNo = Put(@, id, IF id \in DOMAIN @ THEN @[id] + 1 ELSE 1)]

\* mutant: every message starts a new session
RotateSessionAlways(S, id, is_reboot, now) ==
    Then(AllocateSession([S EXCEPT !.byReboot = Put(@, id, is_reboot)], id, now),
         LAMBDA X : CloseExisting(X, id, is_reboot))

\* _get_device_log_file, "if is_reboot or actual_device_id not in
\* self.device_session_ids"
RotateSession(S, id, is_reboot, now) ==
    IF is_reboot \/ id \notin DOMAIN S.sid
    THEN Then(AllocateSession([S EXCEPT !.byReboot = Put(@, id, is_reboot)], id, now),
              LAMBDA X : CloseExisting(X, id, is_reboot))
    ELSE S

\* the header block written to a new per-device file
HeaderBlock(id, is_reboot, reason, now, sess) ==
    <<HeaderLine("header_device", id, now, "", sess),
      HeaderLine("header_started", id, now, "", sess)>>
    \o (IF is_reboot THEN <<HeaderLine("header_reboot", id, now, reason, sess)>>
        ELSE <<>>)
    \o <<HeaderLine("blank", id, now, "", sess)>>

\* the header writes and the flush; a failure is caught and None returned
WriteHeader(S, id, session_key, is_reboot, reason, F, now) ==
    IF "header" \in F
    THEN Say(Did(S, "write_failed", session_key), "error_device_file", id)
    ELSE [Say(Did([S EXCEPT !.disk[FilePath(session_key)] =
                       @ \o HeaderBlock(id, is_reboot, reason, now,
                                        S.files[session_key].sess)],
                  "header", session_key),
              "created", id)
          EXCEPT !.ret = session_key]

\* mutant: the file is opened in append mode
OpenFileAppend(S, id, session_key) ==
    Did([S EXCEPT !.files = Put(@, session_key,
                                [path |-> FilePath(session_key),
                                 id |-> S.nOpens + 1,
                                 sess |-> S.sessNo[id]]),
                  !.disk = IF FilePath(session_key) \in DOMAIN @
                           THEN @
                           ELSE Put(@, FilePath(session_key), <<>>),
                  !.nOpens = @ + 1],
        "open", session_key)

\* open(filepath, 'w') creates or truncates the file; the handle enters
\* device_files
OpenFile(S, id, session_key) ==
    Did([S EXCEPT !.files = Put(@, session_key,
                                [path |-> FilePath(session_key),
                                 id |-> S.nOpens + 1,
                                 sess |-> S.sessNo[id]]),
                  !.disk = Put(@, FilePath(session_key), <<>>),
                  !.nOpens = @ + 1],
        "open", session_key)

\* the try block of _get_device_log_file
OpenDeviceFile(S, id, session_key, is_reboot, reason, F, now) ==
    IF "open" \in F
    THEN Say(Did(S, "open_failed", session_key), "error_device_file", id)
    ELSE Then(OpenFile(S, id, session_key),
              LAMBDA X : WriteHeader(X, id, session_key, is_reboot, reason, F, now))

\* _get_device_log_file, "if session_key not in self.device_files";
\* os.makedirs is outside the try, its failure leaves the handler
CreateDeviceFile(S, id, session_key, is_reboot, reason, F, now) ==
    IF session_key \in DOMAIN S.files
    THEN [S EXCEPT !.ret = session_key]
    ELSE IF ~S.logs_dir /\ "makedirs" \in F
    THEN Did([S EXCEPT !.raised = TRUE], "raise", session_key)
    ELSE Then([S EXCEPT !.logs_dir = TRUE],
              LAMBDA X : OpenDeviceFile(X, id, session_key, is_reboot, reason, F, now))

\* "Current session key" and what follows it
CurrentSessionFile(S, id, is_reboot, reason, F, now) ==
    CreateDeviceFile(S, id, SessionKey(id, S.sid[id]), is_reboot, reason, F, now)

\* _get_device_log_file once the reboot test is made
TrackSession(S, id, current_millis, is_reboot, reason, F, now) ==
    Then(TrackMillis(S, id, current_millis, is_reboot),
         LAMBDA X :
            Then(RotateSession(X, id, is_reboot, now),
                 LAMBDA Y : CurrentSessionFile(Y, id, is_reboot, reason, F, now)))

\* UDPLogListener._get_device_log_file
GetDeviceLogFile(S, parsed, F, now) ==
    TrackSession(S, ExtractDeviceId(parsed.device), parsed.millis,
                 IsReboot(S.lm, parsed), RebootReason(S.lm, parsed), F, now)

\* mutant: the level is written as parsed, in lower case
RecordLineLower(parsed, now, sess) ==
    Line("record", ExtractDeviceId(parsed.device), now, parsed.millis,
         parsed.level, parsed.core, parsed.function, parsed.message,
         "", sess)

\* the line _log_to_device_file formats (the level's padding is left out)
RecordLine(parsed, now, sess) ==
    Line("record", ExtractDeviceId(parsed.device), now, parsed.millis,
         UpperTok(parsed.level), parsed.core, parsed.function, parsed.message,
         "", sess)

\* mutant: the flush writes the line a second time
LogToDeviceFileTwice(S, session_key, parsed, F, now) ==
    Did(Did([S EXCEPT !.disk[S.files[session_key].path] =
                Append(Append(@, RecordLine(parsed, now, S.files[session_key].sess)),
                       RecordLine(parsed, now, S.files[session_key].sess))],
            "write", session_key),
        "flush", session_key)

\* UDPLogListener._log_to_device_file: write, then flush; the file is
\* line-buffered, so a written line is in the file when write returns
LogToDeviceFile(S, session_key, parsed, F, now) ==
    IF "write" \in F
    THEN Say(Did(S, "write_failed", session_key), "error_device_write",
             ExtractDeviceId(parsed.device))
    ELSE Did(Did([S EXCEPT !.disk[S.files[session_key].path] =
                     Append(@, RecordLine(parsed, now, S.files[session_key].sess))],
                 "write", session_key),
             "flush", session_key)

\* a line of the consolidated log: what it was made from, and its text
LogEntry(fmt, now, parsed, level, raw) ==
    [fmt |-> fmt, received_at |-> now, timestamp |-> parsed.timestamp,
     device |-> parsed.device, millis |-> parsed.millis, level |-> level,
     core |-> parsed.core, func |-> parsed.function, msg |-> parsed.message,
     priority |-> parsed.priority, raw |-> raw, text |-> <<>>]

\* f"{current_time} [{addr[0]}] "
LinePrefix(now) == <<ToString(now), " ", "[", "192.168.1.50", "]", " ">>

\* f"{parsed['level'].upper():<7} ": the level, padded to seven characters
PadLevel(level) ==
    IF UpperTok(level) \in {"WARNING", "VERBOSE"}
    THEN <<UpperTok(level), " ">>
    ELSE <<UpperTok(level), "  ">>

\* the structured line of a parsed message:
\* RECEIVED_TIME [SOURCE_IP] ESP_TIME DEVICE[MILLISms] LEVEL [CoreN] FUNCTION: MESSAGE
StructuredLine(now, parsed) ==
    LinePrefix(now) \o <<parsed.timestamp, " ">> \o parsed.device
    \o <<"[", Decimal[parsed.millis], "ms", "]", " ">> \o PadLevel(parsed.level)
    \o <<"[", "Core", Decimal[parsed.core], "]", " ">> \o parsed.function
    \o <<":", " ">> \o parsed.message \o <<"\n">>

\* the line _log_to_file formats, by log_format; a json line is the object
\* of its fields
FormatLogEntry(parsed, raw_message, now) ==
    IF log_format = "json" /\ parsed.matched
    THEN LogEntry("json", now, parsed, parsed.level, NoDatagram)
    ELSE IF log_format = "structured"
    THEN IF parsed.matched
         THEN [LogEntry("structured", now, parsed, UpperTok(parsed.level), NoDatagram)
               EXCEPT !.text = StructuredLine(now, parsed)]
         ELSE [LogEntry("structured_raw", now, parsed, "", raw_message)
               EXCEPT !.text = LinePrefix(now) \o <<"[", "RAW", "]", " ">>
                               \o Strip(message) \o <<"\n">>]
    ELSE [LogEntry("raw", now, Parse(NoDatagram), "", raw_message)
          EXCEPT !.text = LinePrefix(now) \o Strip(message) \o <<"\n">>]

\* the try block of _log_to_file after the counter is incremented
WriteLogEntry(S, parsed, raw_message, F, now) ==
    IF "log_write" \in F
    THEN Say(Did(S, "log_write_failed", <<>>), "error_log_write", <<>>)
    ELSE Did([S EXCEPT !.clog = Append(@, FormatLogEntry(parsed, raw_message, now))],
             "log_write", <<>>)

\* UDPLogListener._log_to_file
LogToFile(S, parsed, raw_message, F, now) ==
    IF file_handle = "None"
    THEN S
    ELSE WriteLogEntry([S EXCEPT !.stats.logged_messages = @ + 1], parsed,
                       raw_message, F, now)

\* _display_parsed_message: is_reboot, from the last displayed millis
DisplayReboot(ldm, id, parsed) ==
    \/ ByMarker(parsed)
    \/ /\ id \in DOMAIN ldm
       /\ MillisReset(parsed.millis, ldm[id])

\* _display_parsed_message: a delta is shown
HasDelta(ldm, id, parsed) ==
    /\ id \in DOMAIN ldm
    /\ ~DisplayReboot(ldm, id, parsed)
    /\ parsed.millis - ldm[id] >= 0

\* the line _display_parsed_message prints
DisplayLine(ldm, id, parsed) ==
    Console("display", id, parsed.millis, HasDelta(ldm, id, parsed),
            IF HasDelta(ldm, id, parsed) THEN parsed.millis - ldm[id] ELSE 0)

\* mutant: the delta is taken from the millis received last
DisplayParsedSinceReceived(S, parsed) ==
    Did([S EXCEPT !.ldm = Put(@, ExtractDeviceId(parsed.device), parsed.millis),
                  !.shown = Put(@, ExtractDeviceId(parsed.device), parsed.millis),
                  !.out = Append(@, DisplayLine(S.lm, ExtractDeviceId(parsed.device),
                                                parsed)),
                  !.printed = @ \cup {"display"}],
        "display", <<>>)

\* UDPLogListener._display_parsed_message
DisplayParsed(S, parsed) ==
    Did([S EXCEPT !.ldm = Put(@, ExtractDeviceId(parsed.device), parsed.millis),
                  !.shown = Put(@, ExtractDeviceId(parsed.device), parsed.millis),
                  !.out = Append(@, DisplayLine(S.ldm, ExtractDeviceId(parsed.device),
                                                parsed)),
                  !.printed = @ \cup {"display"}],
        "display", <<>>)

\* UDPLogListener._display_raw_message
DisplayRaw(S) == Did(Say(S, "raw", <<>>), "display_raw", <<>>)

\* mutant: a suppressed record is not written to the consolidated log
FilterAndDisplayDropsSuppressed(S, parsed, dg, F, now) ==
    IF S.raised
    THEN S
    ELSE IF ~ShouldShow(log_filter, parsed.level, parsed.function)
    THEN [S EXCEPT !.stats.filtered_messages = @ + 1]
    ELSE Then(LogToFile(S, parsed, dg, F, now), LAMBDA X : DisplayParsed(X, parsed))

\* _handle_message, the branch of a parsed message after the device file
FilterAndDisplay(S, parsed, dg, F, now) ==
    IF S.raised
    THEN S
    ELSE IF ~ShouldShow(log_filter, parsed.level, parsed.function)
    THEN LogToFile([S EXCEPT !.stats.filtered_messages = @ + 1], parsed, dg, F, now)
    ELSE Then(LogToFile(S, parsed, dg, F, now), LAMBDA X : DisplayParsed(X, parsed))

\* _handle_message, "if device_file"
WriteIfOpen(G, parsed, F, now) ==
    IF G.raised \/ G.ret = <<>>
    THEN G
    ELSE LogToDeviceFile(G, G.ret, parsed, F, now)

\* mutant: the per-device file is written whatever the configuration says
DeviceLogAlways(S, parsed, F, now) ==
    Then(GetDeviceLogFile(S, parsed, F, now),
         LAMBDA G : WriteIfOpen(G, parsed, F, now))

\* _handle_message, "if self.auto_device_logs"
DeviceLog(S, parsed, F, now) ==
    IF ~auto_device_logs
    THEN S
    ELSE Then(GetDeviceLogFile(S, parsed, F, now),
              LAMBDA G : WriteIfOpen(G, parsed, F, now))

\* mutant: the record is filtered and displayed before it is written to the
\* per-device file
HandleParsedDisplaysFirst(S, parsed, dg, F, now) ==
    IF parsed.matched
    THEN Then(FilterAndDisplay(Did([S EXCEPT !.stats.parsed_messages = @ + 1],
                                   "parse", <<>>),
                               parsed, dg, F, now),
              LAMBDA X : DeviceLog(X, parsed, F, now))
    ELSE DisplayRaw(LogToFile(S, parsed, dg, F, now))

\* mutant: a datagram that did not parse is dropped
HandleParsedDropsUnparsed(S, parsed, dg, F, now) ==
    IF parsed.matched
    THEN Then(DeviceLog(Did([S EXCEPT !.stats.parsed_messages = @ + 1], "parse", <<>>),
                        parsed, F, now),
              LAMBDA X : FilterAndDisplay(X, parsed, dg, F, now))
    ELSE S

\* mutant: a datagram that did not parse is counted as parsed
HandleParsedCountsAll(S, parsed, dg, F, now) ==
    IF parsed.matched
    THEN Then(DeviceLog(Did([S EXCEPT !.stats.parsed_messages = @ + 1], "parse", <<>>),
                        parsed, F, now),
              LAMBDA X : FilterAndDisplay(X, parsed, dg, F, now))
    ELSE DisplayRaw(LogToFile([S EXCEPT !.stats.parsed_messages = @ + 1],
                              parsed, dg, F, now))

\* mutant: a datagram that did not parse is tracked as a message of the
\* device "unknown"
HandleParsedTracksUnparsed(S, parsed, dg, F, now) ==
    IF parsed.matched
    THEN Then(DeviceLog(Did([S EXCEPT !.stats.parsed_messages = @ + 1], "parse", <<>>),
                        parsed, F, now),
              LAMBDA X : FilterAndDisplay(X, parsed, dg, F, now))
    ELSE DisplayRaw(LogToFile(TrackMillis(S, <<"unknown">>, 0, TRUE), parsed, dg, F, now))

\* mutant: a parsed message is not counted as parsed
HandleParsedUncounted(S, parsed, dg, F, now) ==
    IF parsed.matched
    THEN Then(DeviceLog(Did(S, "parse", <<>>), parsed, F, now),
              LAMBDA X : FilterAndDisplay(X, parsed, dg, F, now))
    ELSE DisplayRaw(LogToFile(S, parsed, dg, F, now))

\* _handle_message once the message is parsed
HandleParsed(S, parsed, dg, F, now) ==
    IF parsed.matched
    THEN Then(DeviceLog(Did([S EXCEPT !.stats.parsed_messages = @ + 1], "parse", <<>>),
                        parsed, F, now),
              LAMBDA X : FilterAndDisplay(X, parsed, dg, F, now))
    ELSE DisplayRaw(LogToFile(S, parsed, dg, F, now))

\* UDPLogListener._handle_message
HandleMessage(S, dg, F, now) ==
    Then([S EXCEPT !.stats.total_messages = @ + 1],
         LAMBDA X : HandleParsed(X, Parse(dg), dg, F, now))

\* _stop, "Device-specific log files created": len(self.device_files)
ReportedDeviceFiles == Cardinality(DOMAIN device_files)

(***************************************************************************)
(* The environment: the datagrams the network may deliver and the file     *)
(* operations that may fail, by scenario.                                  *)
(***************************************************************************)
DevA == <<"5", "8", "8", "c", "8", "1", "c", "4", "7", "a", "d", "8">>
DevB == <<"0", "0", "1", "1", "2", "2", "3", "3", "4", "4", "5", "5">>

FuncLoop == <<"src/main.cpp", "[", "loop", "]">>
FuncMeter == <<"src/ade7953.cpp", "[", "_printMeterValues", "]">>

Hello == <<"hello">>
Back == <<"EnergyMe", "-", "Guess", "who's", "back", "!">>

Unparsed == Datagram(FALSE, <<>>, 0, "", 0, <<>>, <<"garbage">>)

\* the end-to-end example: first message of 001122334455
Example == Datagram(TRUE, DevB, 50000, "INFO", 0, FuncLoop, Hello)

BaseNet ==
    {Example,
     Datagram(TRUE, DevB, 2000000, "INFO", 1, FuncLoop, Hello),
     Datagram(TRUE, DevB, 5000, "DEBUG", 1, FuncMeter, Hello),
     Datagram(TRUE, DevB, 5000, "INFO", 0, FuncLoop, Back),
     Datagram(TRUE, DevA, 5000, "Warning", 0, FuncLoop, Hello),
     Unparsed}

\* one device, no marker phrase, millis around the two thresholds
RebootMillis == {5000, 100000, 599999, 600000, 1800000, 1800001, 2000000}

RebootNet ==
    {Datagram(TRUE, DevB, m, "INFO", 0, FuncLoop, Hello) : m \in RebootMillis}

\* few datagrams, for the runs in which every file operation may fail
FaultNet ==
    {Example,
     Datagram(TRUE, DevB, 5000, "INFO", 0, FuncLoop, Back),
     Datagram(TRUE, DevA, 5000, "DEBUG", 1, FuncMeter, Hello),
     Unparsed}

\* the datagrams of the runs checked for termination
LiveNet == {Example, Datagram(TRUE, DevB, 5000, "INFO", 0, FuncLoop, Back), Unparsed}

\* the levels of the filter runs: the six levels, one in mixed case and one
\* that LEVELS does not know
FilterLevels ==
    {"VERBOSE", "DEBUG", "INFO", "WARNING", "ERROR", "FATAL", "Warning", "TRACE"}

\* every level, from two functions of two files
FilterNet ==
    {Datagram(TRUE, DevB, 50000, l, 0, f, Hello) :
        l \in FilterLevels, f \in {FuncLoop, FuncMeter}}

\* --filter: the choices of the option
Thresholds == {"verbose", "debug", "info", "warning", "error", "fatal"}

\* --exclude-files and --exclude-functions, as typed
Exclusions ==
    {<<{}, {}>>,
     <<{<<"SRC/MAIN.CPP">>}, {}>>,
     <<{}, {<<"Loop">>}>>,
     <<{<<"src/ade7953.cpp">>}, {<<"[", "Loop", "]">>}>>}

\* one device shown and suppressed around its reboots, a second device
DisplayNet ==
    {Datagram(TRUE, DevB, 50000, "WARNING", 0, FuncLoop, Hello),
     Datagram(TRUE, DevB, 60000, "ERROR", 0, FuncLoop, Hello),
     Datagram(TRUE, DevB, 70000, "DEBUG", 0, FuncLoop, Back),
     Datagram(TRUE, DevB, 2000000, "ERROR", 1, FuncLoop, Hello),
     Datagram(TRUE, DevB, 5000, "DEBUG", 1, FuncMeter, Hello),
     Datagram(TRUE, DevB, 5000, "ERROR", 1, FuncMeter, Hello),
     Datagram(TRUE, DevA, 60000, "WARNING", 0, FuncLoop, Hello),
     Unparsed}

\* a near miss: the text of Example without the ":" that follows "[millis]"
MissingColon ==
    Datagram(FALSE, <<>>, 0, "", 0, <<>>,
             <<"<", "14", ">", "2025-01-01T00:00:00.000Z", " ">> \o DevB
             \o <<"[", "50000", "]", " ", "[", "INFO", "]", "[", "Core", "0", "]",
                  " ", "src/main.cpp", "[", "loop", "]", ":", " ", "hello">>)

\* the device id of DevA as a firmware that prints upper-case hex sends it
DevAUpper == <<"5", "8", "8", "C", "8", "1", "C", "4", "7", "A", "D", "8">>

\* a message that holds a ":" itself
Reading == <<"Voltage", ":", " ", "230V">>

\* the second example of the comment above SYSLOG_PATTERN, with white space
\* before the ":" that ends the function
OtherFields ==
    [Datagram(TRUE, DevB, 100000, "DEBUG", 1, FuncMeter \o <<"  ">>, Reading)
     EXCEPT !.priority = 16, !.timestamp = "2025-08-08T18:36:33.275Z"]

\* a near miss: a timestamp without the fraction of the second
NoFraction ==
    Datagram(FALSE, <<>>, 0, "", 0, <<>>,
             <<"<", "14", ">", "2025-01-01T00:00:00Z", " ">> \o DevB
             \o <<"[", "50000", "]", ":", " ", "[", "INFO", "]", "[", "Core", "0", "]",
                  " ", "src/main.cpp", "[", "loop", "]", ":", " ", "hello">>)

\* a near miss: the text ends after the function's ":"
NoMessage ==
    Datagram(FALSE, <<>>, 0, "", 0, <<>>,
             <<"<", "14", ">", "2025-01-01T00:00:00.000Z", " ">> \o DevB
             \o <<"[", "50000", "]", ":", " ", "[", "INFO", "]", "[", "Core", "0", "]",
                  " ", "src/main.cpp", "[", "loop", "]", ":">>)

\* texts of the grammar with each field varied: the device id in lower and
\* in upper case and absent, a mixed-case and an unknown level; and texts
\* that are not of the grammar
ParserNet ==
    {Example,
     Datagram(TRUE, DevA, 60000, "Info", 1, FuncMeter, Hello),
     Datagram(TRUE, DevAUpper, 70000, "INFO", 0, FuncLoop, Hello),
     Datagram(TRUE, <<>>, 5000, "TRACE", 0, FuncLoop, Hello),
     OtherFields,
     MissingColon, NoFraction, NoMessage, Unparsed}

\* a shown, a suppressed and a suppressed restart message, and a near miss
LogNet ==
    {Example,
     Datagram(TRUE, DevB, 60000, "DEBUG", 1, FuncMeter, Hello),
     Datagram(TRUE, DevB, 5000, "DEBUG", 0, FuncLoop, Back),
     MissingColon}

\* records of a level that LEVELS does not know and of the lowest and the
\* highest level it knows, from two functions
LevelsNet ==
    {Datagram(TRUE, DevB, 50000, "TRACE", 0, FuncLoop, Hello),
     Datagram(TRUE, DevB, 60000, "TRACE", 1, FuncMeter, Hello),
     Datagram(TRUE, DevB, 70000, "VERBOSE", 0, FuncLoop, Hello),
     Datagram(TRUE, DevB, 100000, "FATAL", 0, FuncLoop, Hello)}

Net(sc) ==
    CASE sc = "reboot" -> RebootNet
      [] sc = "faults" -> FaultNet
      [] sc = "live" -> LiveNet
      [] sc = "filter" -> FilterNet
      [] sc = "display" -> DisplayNet
      [] sc = "log" -> LogNet
      [] sc = "parser" -> ParserNet
      [] sc = "io" -> LiveNet
      [] sc = "levels" -> LevelsNet
      [] OTHER -> BaseNet

\* the sets of file operations that may fail while one datagram is handled
FaultSets(sc) ==
    CASE sc = "reboot" -> {{}}
      [] sc = "faults" -> {{}, {"makedirs"}, {"open"}, {"header"}, {"write"}}
      [] sc = "live" -> {{}, {"makedirs"}}
      [] sc = "filter" -> {{}}
      [] sc = "display" -> {{}}
      [] sc = "log" -> {{}, {"log_write"}}
      [] sc = "parser" -> {{}}
      [] sc = "io" -> {{}, {"makedirs"}, {"open"}, {"header"}, {"write"}, {"log_write"}}
      [] sc = "levels" -> {{}}
      [] OTHER -> {{}, {"makedirs"}, {"open"}}

(***************************************************************************)
(* Initial state: the listener as constructed by main().                   *)
(***************************************************************************)
InitListener ==
    /\ pc = "init"
    /\ running = FALSE
    /\ message_count = 0
    /\ message = <<>>
    /\ dgram = NoDatagram
    /\ file_handle = "None"
    /\ device_files = EmptyDict
    /\ device_last_millis = EmptyDict
    /\ device_session_ids = EmptyDict
    /\ device_last_display_millis = EmptyDict
    /\ stats = [total_messages |-> 0, parsed_messages |-> 0,
                filtered_messages |-> 0, logged_messages |-> 0,
                start_time |-> -1]
    /\ disk = EmptyDict
    /\ logs_dir = FALSE
    /\ clog = <<>>
    /\ clock = 0
    /\ out = <<>>
    /\ printed = {}
    /\ ev = <<>>
    /\ sessNo = EmptyDict
    /\ nOpens = 0
    /\ shown = EmptyDict
    /\ byReboot = EmptyDict

\* per-device logging on or off, display threshold warning, no consolidated log
Init ==
    /\ InitListener
    /\ scenario = "base"
    /\ auto_device_logs \in BOOLEAN
    /\ log_filter = MakeFilter("warning", {}, {})
    /\ log_file = FALSE
    /\ log_format = "structured"

\* one device whose millis run over the thresholds of the reboot test
InitReboot ==
    /\ InitListener
    /\ scenario = "reboot"
    /\ auto_device_logs = TRUE
    /\ log_filter = MakeFilter("verbose", {}, {})
    /\ log_file = FALSE
    /\ log_format = "structured"

\* every per-device file operation may fail
InitFaults ==
    /\ InitListener
    /\ scenario = "faults"
    /\ auto_device_logs = TRUE
    /\ log_filter = MakeFilter("info", {}, {})
    /\ log_file = FALSE
    /\ log_format = "structured"

\* few datagrams, a handler may raise
InitLive ==
    /\ InitListener
    /\ scenario = "live"
    /\ auto_device_logs = TRUE
    /\ log_filter = MakeFilter("verbose", {}, {})
    /\ log_file = FALSE
    /\ log_format = "structured"

\* every threshold and exclusion list of the display filter
InitFilter ==
    /\ InitListener
    /\ scenario = "filter"
    /\ auto_device_logs = FALSE
    /\ \E th \in Thresholds : \E x \in Exclusions :
          log_filter = MakeFilter(th, x[1], x[2])
    /\ log_file = FALSE
    /\ log_format = "structured"

\* display threshold warning, per-device logging on or off
InitDisplay ==
    /\ InitListener
    /\ scenario = "display"
    /\ auto_device_logs \in BOOLEAN
    /\ log_filter = MakeFilter("warning", {}, {})
    /\ log_file = FALSE
    /\ log_format = "structured"

\* a consolidated log in each format, per-device logging on or off
InitLog ==
    /\ InitListener
    /\ scenario = "log"
    /\ auto_device_logs \in BOOLEAN
    /\ log_filter = MakeFilter("info", {}, {})
    /\ log_file = TRUE
    /\ log_format \in {"structured", "raw", "json"}

\* the default configuration with every level displayed
InitParser ==
    /\ InitListener
    /\ scenario = "parser"
    /\ auto_device_logs = TRUE
    /\ log_filter = MakeFilter("verbose", {}, {})
    /\ log_file = FALSE
    /\ log_format = "structured"

\* both sinks on, every file operation of a handler may fail
InitIo ==
    /\ InitListener
    /\ scenario = "io"
    /\ auto_device_logs = TRUE
    /\ log_filter = MakeFilter("info", {}, {})
    /\ log_file = TRUE
    /\ log_format = "structured"

\* both sinks on, every threshold of the display filter, with and without
\* an excluded function
InitLevels ==
    /\ InitListener
    /\ scenario = "levels"
    /\ auto_device_logs = TRUE
    /\ \E th \in Thresholds : \E x \in {{}, {<<"Loop">>}} :
          log_filter = MakeFilter(th, {}, x)
    /\ log_file = TRUE
    /\ log_format = "structured"

(***************************************************************************)
(* Actions.                                                                *)
(***************************************************************************)
config == <<auto_device_logs, log_filter, log_format, scenario>>

session == <<device_files, device_last_millis, device_session_ids,
             device_last_display_millis, disk, logs_dir, sessNo, nOpens, shown, byReboot>>

\* start(): the signal handler is installed, the consolidated log opened
Start ==
    /\ pc = "init"
    /\ pc' = "setup"
    /\ \E opened \in BOOLEAN :
          IF log_file /\ opened
          THEN /\ file_handle' = "open"
               /\ log_file' = log_file
               /\ out' = <<Notice("logging_to_file", <<>>)>>
          ELSE IF log_file
          THEN /\ file_handle' = file_handle
               /\ log_file' = FALSE
               /\ out' = <<Notice("error_log_file", <<>>)>>
          ELSE /\ opened
               /\ UNCHANGED <<file_handle, log_file>>
               /\ out' = <<>>
    /\ printed' = printed \cup {out'[i].k : i \in 1..Len(out')}
    /\ UNCHANGED <<running, message_count, message, dgram, config, session, stats, clog,
                   clock, ev>>

\* mutant: a failure to bind is reported and the loop entered all the same
SetupEntersLoop ==
    /\ pc = "setup"
    /\ \E bound \in BOOLEAN :
          /\ pc' = "loop"
          /\ running' = TRUE
          /\ stats' = [stats EXCEPT !.start_time = clock]
          /\ clog' = IF file_handle = "open"
                     THEN Append(clog, LogEntry("session_started", clock,
                                                Parse(NoDatagram), "", NoDatagram))
                     ELSE clog
          /\ out' = IF bound THEN <<Notice("listening", <<>>)>>
                    ELSE <<Notice("error_setup", <<>>), Notice("listening", <<>>)>>
          /\ file_handle' = file_handle
    /\ printed' = printed \cup {out'[i].k : i \in 1..Len(out')}
    /\ UNCHANGED <<message_count, message, dgram, config, log_file, session, clock, ev>>

\* start(): the socket is bound (and the group joined), or that fails and
\* the process exits; on success the loop is entered
Setup ==
    /\ pc = "setup"
    /\ \E bound \in BOOLEAN :
          IF bound
          THEN /\ pc' = "loop"
               /\ running' = TRUE
               /\ stats' = [stats EXCEPT !.start_time = clock]
               /\ clog' = IF file_handle = "open"
                          THEN Append(clog, LogEntry("session_started", clock,
                                                     Parse(NoDatagram), "", NoDatagram))
                          ELSE clog
               /\ out' = <<Notice("listening", <<>>)>>
               /\ file_handle' = file_handle
          ELSE /\ pc' = "exited"
               /\ out' = <<Notice("error_setup", <<>>)>>
               /\ file_handle' = IF file_handle = "open" THEN "closed" ELSE file_handle
               /\ UNCHANGED <<running, stats, clog>>
    /\ printed' = printed \cup {out'[i].k : i \in 1..Len(out')}
    /\ UNCHANGED <<message_count, message, dgram, config, log_file, session, clock, ev>>

\* mutant: the loop does not test the flag
LoopConditionTrue == TRUE

\* _listen_loop: "while self.running"
LoopCondition == running

\* _listen_loop: the loop test; the loop ends when the flag is cleared
LoopCheck ==
    /\ pc = "loop"
    /\ IF LoopCondition
       THEN /\ pc' = "recv"
            /\ out' = <<>>
       ELSE /\ pc' = "ended"
            /\ out' = <<Notice("loop_ended", <<>>)>>
    /\ printed' = printed \cup {out'[i].k : i \in 1..Len(out')}
    /\ UNCHANGED <<running, message_count, message, dgram, config, log_file, file_handle,
                   session, stats, clog, clock, ev>>

\* _listen_loop: recvfrom returns a datagram
Recv ==
    /\ pc = "recv"
    /\ message_count < MaxMsgs
    /\ \E dg \in Net(scenario) :
          \E text \in {Wire(dg)} :
             \E groups \in {MatchPattern(Strip(text))} :
                /\ message' = text
                /\ dgram' = groups
    /\ message_count' = message_count + 1
    /\ pc' = "handle"
    /\ UNCHANGED <<running, config, log_file, file_handle, session, stats, clog,
                   clock, out, printed, ev>>

\* _listen_loop: recvfrom times out after one second
Timeout ==
    /\ pc = "recv"
    /\ pc' = "loop"
    /\ UNCHANGED <<running, message_count, message, dgram, config, log_file, file_handle,
                   session, stats, clog, clock, out, printed, ev>>

\* _listen_loop, "except Exception": what is printed when a receive or a
\* handler raised
LoopError == IF running THEN <<Notice("error_receiving", <<>>)>> ELSE <<>>

\* _listen_loop: recvfrom raises an error other than the timeout
RecvError ==
    /\ pc = "recv"
    /\ pc' = "loop"
    /\ out' = LoopError
    /\ printed' = printed \cup {out'[i].k : i \in 1..Len(out')}
    /\ UNCHANGED <<running, message_count, message, dgram, config, log_file, file_handle,
                   session, stats, clog, clock, ev>>

\* the listener's fields and the file system, as a handler sees them
Store ==
    [files |-> device_files, lm |-> device_last_millis, sid |-> device_session_ids,
     ldm |-> device_last_display_millis, stats |-> stats, disk |-> disk,
     logs_dir |-> logs_dir, clog |-> clog, out |-> <<>>, printed |-> printed,
     ev |-> <<>>, sessNo |-> sessNo, nOpens |-> nOpens, shown |-> shown,
     byReboot |-> byReboot,
     ret |-> <<>>, raised |-> FALSE]

\* mutant: an exception that leaves the handler ends the loop
AfterHandlerUncaught(R) == IF R.raised THEN "ended" ELSE "loop"

\* _listen_loop: where the loop goes after the handler returned or its
\* exception was caught by "except Exception": to the loop test
AfterHandler(R) == "loop"

\* mutant: the signal interrupts the handler, whose work is lost
CatchInLoopAborted(R) ==
    IF ~running THEN Store
    ELSE IF R.raised THEN Say(R, "error_receiving", <<>>) ELSE R

\* _listen_loop, "except Exception" around the handler
CatchInLoop(R) ==
    IF R.raised /\ running THEN Say(R, "error_receiving", <<>>) ELSE R

\* the store a handler leaves becomes the state
Commit(T) ==
    /\ device_files' = T.files
    /\ device_last_millis' = T.lm
    /\ device_session_ids' = T.sid
    /\ device_last_display_millis' = T.ldm
    /\ stats' = T.stats
    /\ disk' = T.disk
    /\ logs_dir' = T.logs_dir
    /\ clog' = T.clog
    /\ out' = T.out
    /\ printed' = T.printed
    /\ ev' = T.ev
    /\ sessNo' = T.sessNo
    /\ nOpens' = T.nOpens
    /\ shown' = T.shown
    /\ byReboot' = T.byReboot

\* _listen_loop: _handle_message(message, addr) on the datagram received
Handle ==
    /\ pc = "handle"
    /\ \E F \in FaultSets(scenario) :
          \E T \in {CatchInLoop(HandleMessage(Store, dgram, F, clock))} :
             /\ Commit(T)
             /\ pc' = AfterHandler(T)
    /\ UNCHANGED <<running, message_count, message, dgram, config, log_file, file_handle,
                   clock>>

\* _signal_handler: SIGINT, once the handler is installed
Signal ==
    /\ pc \in {"setup", "loop", "recv", "handle", "ended"}
    /\ running \/ "interrupt" \notin printed
    /\ running' = FALSE
    /\ out' = <<Notice("interrupt", <<>>)>>
    /\ printed' = printed \cup {"interrupt"}
    /\ UNCHANGED <<pc, message_count, message, dgram, config, log_file, file_handle,
                   session, stats, clog, clock, ev>>

\* a second of wall-clock time passes while the receive blocks
Tick ==
    /\ pc = "recv"
    /\ clock < MaxClock
    /\ clock' = clock + 1
    /\ UNCHANGED <<pc, running, message_count, message, dgram, config, log_file,
                   file_handle, session, stats, clog, out, printed, ev>>

\* start() after _listen_loop returned: the finally clause closes the
\* consolidated log, main() returns and the process exits
Exit ==
    /\ pc = "ended"
    /\ pc' = "exited"
    /\ file_handle' = IF file_handle = "open" THEN "closed" ELSE file_handle
    /\ out' = <<>>
    /\ UNCHANGED <<running, message_count, message, dgram, config, log_file, session,
                   stats, clog, clock, printed, ev>>

Next ==
    \/ Start
    \/ Setup
    \/ LoopCheck
    \/ Recv
    \/ Timeout
    \/ RecvError
    \/ Handle
    \/ Signal
    \/ Tick
    \/ Exit

Spec == Init /\ [][Next]_vars

SpecReboot == InitReboot /\ [][Next]_vars

SpecFaults == InitFaults /\ [][Next]_vars

SpecFilter == InitFilter /\ [][Next]_vars

SpecDisplay == InitDisplay /\ [][Next]_vars

SpecLog == InitLog /\ [][Next]_vars

SpecParser == InitParser /\ [][Next]_vars

SpecIo == InitIo /\ [][Next]_vars

SpecLevels == InitLevels /\ [][Next]_vars

\* the steps of the process itself; SIGINT and the passing of time are the
\* environment's
Step ==
    \/ Start
    \/ Setup
    \/ LoopCheck
    \/ Recv
    \/ Timeout
    \/ RecvError
    \/ Handle
    \/ Exit

\* the process keeps running: a step that stays possible is taken, and a
\* blocked receive ends, by its one-second timeout at the latest
LiveSpec == InitLive /\ [][Next]_vars /\ WF_vars(Step)

(***************************************************************************)
(* Properties.                                                             *)
(***************************************************************************)
\* a step that handles the datagram in dgram
HandleStep == pc = "handle" /\ pc' = "loop"

\* the device id the datagram in dgram is tracked under
CurDev == ExtractDeviceId(Parse(dgram).device)

\* dgram parsed and per-device logging is on: the session tracker runs
Tracked == auto_device_logs /\ dgram.ok

\* some file operation failed in the events e
Failed(e) ==
    \E i \in 1..Len(e) : e[i].e \in {"raise", "open_failed", "write_failed"}

\* the number of events of kind k in e
CountEv(e, k) == Cardinality({i \in 1..Len(e) : e[i].e = k})

\* the path of the device's current session file, in the state after a step
CurPath(d) == FilePath(SessionKey(d, device_session_ids'[d]))

\* C1: for a device with a recorded lastSeenMillis and a message without the
\* marker phrase, a reboot is inferred (a new session is started and its
\* file's header names the millis reset) exactly when millis < 600000 and
\* lastSeenMillis > 1800000 and millis < lastSeenMillis; otherwise the
\* session and its handle stay as they are.
C1_RebootIffCounterReset ==
    [][(/\ HandleStep
        /\ Tracked
        /\ ~Contains(dgram.msg, Marker)
        /\ CurDev \in DOMAIN device_last_millis)
       => IF /\ dgram.millis < 600000
             /\ device_last_millis[CurDev] > 1800000
             /\ dgram.millis < device_last_millis[CurDev]
          THEN /\ sessNo'[CurDev] = sessNo[CurDev] + 1
               /\ CurPath(CurDev) \in DOMAIN disk'
               /\ disk'[CurPath(CurDev)][3].k = "header_reboot"
               /\ disk'[CurPath(CurDev)][3].reason = "millis_reset"
               /\ \/ CurDev \notin DOMAIN device_last_display_millis'
                  \/ ev'[Len(ev')].e = "display"
          ELSE /\ sessNo' = sessNo
               /\ device_session_ids' = device_session_ids
               /\ device_files' = device_files]_vars

\* C1 witness: lastSeen = 2000000 (the last record of session 1), then
\* millis = 5000 without the marker: session 2 was started by a millis reset
C1_Witness ==
    /\ pc = "loop"
    /\ scenario = "reboot"
    /\ dgram.millis = 5000
    /\ DevB \in DOMAIN sessNo
    /\ sessNo[DevB] = 2
    /\ \E p \in DOMAIN disk :
          /\ Len(disk[p]) = 5
          /\ disk[p][3].reason = "millis_reset"
          /\ disk[p][5].millis = 5000
    /\ \E q \in DOMAIN disk :
          /\ Len(disk[q]) = 4
          /\ disk[q][4].sess = 1
          /\ disk[q][4].millis = 2000000

\* C1, the second example: lastSeen = 100000, then millis = 5000: no reboot,
\* both records are in the one session file
C1_WitnessNoReboot ==
    /\ pc = "loop"
    /\ scenario = "reboot"
    /\ dgram.millis = 5000
    /\ DevB \in DOMAIN sessNo
    /\ sessNo[DevB] = 1
    /\ \E p \in DOMAIN disk :
          /\ Len(disk[p]) = 5
          /\ disk[p][4].millis = 100000
          /\ disk[p][5].millis = 5000

\* the handles of device d that are open
HandlesOf(files, d) == {files[k] : k \in OldSessionKeys(files, d)}

\* C2: a parsed message that contains the marker phrase starts a new session
\* of its device, whatever its millis and the device's lastSeenMillis, also
\* as the first message of the device: a session id is allocated, every
\* handle the device had is closed, and the new session's file is opened
\* (unless creating the directory or opening the file fails).
C2_MarkerStartsSession ==
    [][(HandleStep /\ Tracked /\ Contains(dgram.msg, Marker))
       => /\ sessNo'[CurDev] = (IF CurDev \in DOMAIN sessNo THEN sessNo[CurDev] ELSE 0) + 1
          /\ device_session_ids'[CurDev] = SessionTimestamp(clock)
          /\ \A h \in HandlesOf(device_files, CurDev) :
                h \notin HandlesOf(device_files', CurDev)
          /\ CountEv(ev', "close") = Cardinality(HandlesOf(device_files, CurDev))
          /\ \/ Failed(ev')
             \/ /\ HandlesOf(device_files', CurDev) =
                      {[path |-> CurPath(CurDev), id |-> nOpens + 1,
                        sess |-> sessNo'[CurDev]]}
                /\ disk'[CurPath(CurDev)][3].reason = "guess_whos_back"]_vars

\* C2 witness: the marker phrase in the first message ever seen from a device
\* opened session 1 of that device
C2_Witness ==
    /\ pc = "loop"
    /\ Contains(dgram.msg, Marker)
    /\ stats.parsed_messages = 1
    /\ DOMAIN sessNo = {DevB}
    /\ sessNo[DevB] = 1
    /\ Cardinality(HandlesOf(device_files, DevB)) = 1

\* C2 witness: the marker phrase in a later message, with millis above the
\* last seen millis, closed session 1 and opened session 2
C2_WitnessLater ==
    /\ pc = "loop"
    /\ Contains(dgram.msg, Marker)
    /\ DevB \in DOMAIN sessNo
    /\ sessNo[DevB] = 2
    /\ CountEv(ev, "close") = 1
    /\ CountEv(ev, "open") = 1

\* the sessions whose lines are in the file at path p
SessionsIn(p) == {<<disk[p][i].dev, disk[p][i].sess>> : i \in 1..Len(disk[p])}

\* C3: no per-device file holds lines of two inferred sessions; every open
\* handle of a device belongs to the device's current session; and in the
\* handling of a datagram every close comes before every open and write.
C3_SessionsNeverShareAFile ==
    /\ \A p \in DOMAIN disk : Cardinality(SessionsIn(p)) <= 1
    /\ \A k \in DOMAIN device_files :
          \E d \in DOMAIN sessNo :
             /\ StartsWith(k, d \o <<"_">>)
             /\ device_files[k].sess = sessNo[d]
             /\ SessionsIn(device_files[k].path) \subseteq {<<d, sessNo[d]>>}
    /\ \A i \in 1..Len(ev) : \A j \in 1..Len(ev) :
          (ev[i].e = "close" /\ ev[j].e \in {"open", "header", "write"}) => i < j

\* C3 witness: a session boundary at which the old handle was closed, the new
\* file opened and the record written to it, two files on disk
C3_Witness ==
    /\ pc = "loop"
    /\ CountEv(ev, "close") = 1
    /\ CountEv(ev, "write") = 1
    /\ Cardinality(DOMAIN disk) = 2
    /\ \E d \in DOMAIN sessNo : sessNo[d] = 2

\* C4: each device has at most one open per-device file handle.
C4_OneHandlePerDevice ==
    \A d \in DOMAIN device_last_millis :
       Cardinality(OldSessionKeys(device_files, d)) <= 1

\* C4 witness: two devices, one of them in its second session, each with one
\* open handle
C4_Witness ==
    /\ DOMAIN device_last_millis = {DevA, DevB}
    /\ sessNo[DevB] = 2
    /\ Cardinality(DOMAIN disk) = 3
    /\ Cardinality(OldSessionKeys(device_files, DevA)) = 1
    /\ Cardinality(OldSessionKeys(device_files, DevB)) = 1

\* the last line of the file at path p is a footer
EndsWithFooter(p) ==
    /\ Len(disk[p]) > 0
    /\ disk[p][Len(disk[p])].k = "footer"

\* C5: when SIGINT cleared the flag while the listener was running and
\* per-device files were opened, then at the exit of the process every
\* per-device handle has been closed, every per-device file ends with a
\* footer and the statistics have been printed.
C5_ShutdownDrainsDeviceFiles ==
    (pc = "exited" /\ stats.start_time >= 0 /\ "interrupt" \in printed /\ nOpens > 0)
    => /\ DOMAIN device_files = {}
       /\ \A p \in DOMAIN disk : EndsWithFooter(p)
       /\ "statistics" \in printed

\* C6: once the flag is cleared in the loop it stays cleared, the loop test
\* that sees it ends the loop, no receive is started after it, the receive
\* in flight is followed only by the handling of its datagram, and the loop
\* does end, whatever a receive or a handler raised before.
C6_LoopEndsAfterSignal ==
    /\ [][(pc \in {"loop", "recv", "handle"} /\ ~running)
          => /\ ~running'
             /\ pc = "loop" => pc' \in {"loop", "ended"}
             /\ pc = "recv" => pc' \in {"recv", "loop", "handle"}
             /\ pc = "handle" => pc' \in {"handle", "loop"}
             /\ message_count' > message_count => pc = "recv"]_vars
    /\ (pc \in {"loop", "recv", "handle"} /\ ~running) ~> (pc = "ended")

\* C6 witness: the loop has ended after SIGINT, in a run in which a handler
\* raised and a datagram was taken by the receive in flight
C6_Witness ==
    /\ pc = "ended"
    /\ ~running
    /\ "interrupt" \in printed
    /\ "error_receiving" \in printed
    /\ message_count = 2

\* C7: a per-device file that has been closed because its session was
\* superseded ends with a footer.
C7_RotationWritesFooter ==
    \A p \in DOMAIN disk :
       (\A k \in DOMAIN device_files : device_files[k].path # p)
       => EndsWithFooter(p)

\* C8: a new session's file is a new file: the path it is opened at is the
\* path of no file of an earlier session, so opening it overwrites nothing.
C8_SessionsHaveDistinctFiles ==
    [][(HandleStep /\ sessNo' # sessNo)
       => \A k \in DOMAIN device_files' :
             device_files'[k].id > nOpens => device_files'[k].path \notin DOMAIN disk]_vars

\* the record line a per-device file is to hold for the datagram in dgram
ExpectedRecord(sess) ==
    Line("record", CurDev, clock, dgram.millis, UpperTok(dgram.level), dgram.core,
         dgram.func, dgram.msg, "", sess)

\* the kinds of the lines of a header block
IsHeaderBlock(lines) ==
    /\ Len(lines) \in {3, 4}
    /\ lines[1].k = "header_device"
    /\ lines[2].k = "header_started"
    /\ Len(lines) = 4 => lines[3].k = "header_reboot"
    /\ lines[Len(lines)].k = "blank"

\* the handle the device has for its current session before and after a step
\* is the same open file
SameHandle(d) ==
    /\ d \in DOMAIN device_session_ids
    /\ device_session_ids'[d] = device_session_ids[d]
    /\ SessionKey(d, device_session_ids[d]) \in DOMAIN device_files
    /\ device_files'[SessionKey(d, device_session_ids[d])] =
          device_files[SessionKey(d, device_session_ids[d])]

\* C9: with per-device logging on, when the device's session file is open
\* after the session update and no file operation fails, the handling of a
\* parsed datagram appends exactly one line, the datagram's record, to that
\* file and flushes it, and writes to no other file; no handling of a
\* datagram writes more than one record, and an unparsed datagram writes
\* none.
C9_OneLinePerParsedDatagram ==
    [][HandleStep
       => /\ CountEv(ev', "write") <= 1
          /\ ~Tracked => (CountEv(ev', "write") = 0 /\ disk' = disk)
          /\ (/\ Tracked
              /\ ~Failed(ev')
              /\ SessionKey(CurDev, device_session_ids'[CurDev]) \in DOMAIN device_files')
             => /\ CountEv(ev', "write") = 1
                /\ ev'[Len(ev')].e = "display" => ev'[Len(ev') - 1].e = "flush"
                /\ ev'[Len(ev')].e # "display" => ev'[Len(ev')].e = "flush"
                /\ \E i \in 1..Len(ev') :
                      /\ ev'[i].e = "write"
                      /\ ev'[i + 1].e = "flush"
                      /\ ev'[i].key = SessionKey(CurDev, device_session_ids'[CurDev])
                /\ disk'[CurPath(CurDev)][Len(disk'[CurPath(CurDev)])] =
                      ExpectedRecord(sessNo'[CurDev])
                /\ IF SameHandle(CurDev)
                   THEN disk'[CurPath(CurDev)] =
                           Append(disk[CurPath(CurDev)], ExpectedRecord(sessNo[CurDev]))
                   ELSE IsHeaderBlock(SubSeq(disk'[CurPath(CurDev)], 1,
                                             Len(disk'[CurPath(CurDev)]) - 1))
                /\ \A q \in DOMAIN disk' \ {CurPath(CurDev)} :
                      q \in DOMAIN disk /\ disk'[q] = disk[q]]_vars

\* C9 witness: a second record appended to a session file that was open
C9_Witness ==
    /\ pc = "loop"
    /\ scenario = "faults"
    /\ CountEv(ev, "write") = 1
    /\ CountEv(ev, "open") = 0
    /\ \E p \in DOMAIN disk :
          /\ Len(disk[p]) = 5
          /\ disk[p][4].k = "record"
          /\ disk[p][5].k = "record"

\* C10: the first parsed message of a device, when no file operation fails,
\* creates exactly one new per-device file, and that file then holds the
\* header block followed by one record line with the message's millis,
\* upper-cased level, core, function and message; no other file changes.
C10_FirstMessageCreatesFile ==
    [][(HandleStep /\ Tracked /\ CurDev \notin DOMAIN device_last_millis /\ ~Failed(ev'))
       => /\ DOMAIN disk' \ DOMAIN disk = {CurPath(CurDev)}
          /\ nOpens' = nOpens + 1
          /\ \A q \in DOMAIN disk : disk'[q] = disk[q]
          /\ IsHeaderBlock(SubSeq(disk'[CurPath(CurDev)], 1,
                                  Len(disk'[CurPath(CurDev)]) - 1))
          /\ disk'[CurPath(CurDev)][1].dev = CurDev
          /\ disk'[CurPath(CurDev)][Len(disk'[CurPath(CurDev)])] = ExpectedRecord(1)]_vars

\* C10 witness: the example datagram as the first message of 001122334455
C10_Witness ==
    /\ pc = "loop"
    /\ dgram = Example
    /\ stats.total_messages = 1
    /\ DOMAIN disk = {FilePath(SessionKey(DevB, SessionTimestamp(clock)))}
    /\ \E p \in DOMAIN disk :
          /\ Len(disk[p]) = 4
          /\ disk[p][4].k = "record"
          /\ disk[p][4].dev = DevB
          /\ disk[p][4].millis = 50000
          /\ disk[p][4].level = "INFO"
          /\ disk[p][4].core = 0
          /\ disk[p][4].func = <<"src/main.cpp", "[", "loop", "]">>
          /\ disk[p][4].msg = <<"hello">>

\* the total order of the levels
LevelOrder == <<"verbose", "debug", "info", "warning", "error", "fatal">>

\* the place of a level on the order, whatever its letter case; a level that
\* is not one of the six is ordered lowest
Rank(l) ==
    IF \E i \in 1..Len(LevelOrder) : LevelOrder[i] = LowerTok(l)
    THEN CHOOSE i \in 1..Len(LevelOrder) : LevelOrder[i] = LowerTok(l)
    ELSE 1

\* the handling whose events are e displayed the record
Displayed(e) == Len(e) > 0 /\ e[Len(e)].e = "display"

\* C11: a parsed record is displayed exactly when its level is not below the
\* threshold on verbose < debug < info < warning < error < fatal and its
\* function field contains none of the excluded file or function
\* substrings, letter case ignored; with the threshold warning and no
\* exclusions exactly the records of level warning, error and fatal are
\* displayed.
C11_FilterShowsIff ==
    [][(HandleStep /\ dgram.ok)
       => /\ \A th \in Thresholds : \A x \in Exclusions :
                log_filter = MakeFilter(th, x[1], x[2])
                => (Displayed(ev')
                    <=> /\ Rank(dgram.level) >= Rank(th)
                        /\ \A sub \in x[1] \cup x[2] :
                              ~Contains(LowerSeq(dgram.func), LowerSeq(sub)))
          /\ log_filter = MakeFilter("warning", {}, {})
             => (Displayed(ev')
                 <=> LowerTok(dgram.level) \in {"warning", "error", "fatal"})]_vars

\* C11 witness: threshold warning, a record of level Warning is displayed
C11_Witness ==
    /\ pc = "loop"
    /\ scenario = "filter"
    /\ log_filter = MakeFilter("warning", {}, {})
    /\ dgram.level = "Warning"
    /\ Displayed(ev)
    /\ stats.filtered_messages = 1

\* C11 witness: a record of level error from src/main.cpp, suppressed
\* because SRC/MAIN.CPP is an excluded file
C11_WitnessExcluded ==
    /\ pc = "loop"
    /\ scenario = "filter"
    /\ log_filter = MakeFilter("info", {<<"SRC/MAIN.CPP">>}, {})
    /\ dgram.level = "ERROR"
    /\ dgram.func = FuncLoop
    /\ ~Displayed(ev)
    /\ stats.filtered_messages = stats.parsed_messages

\* the session tracker infers a reboot from the datagram in dgram
RebootInferred ==
    \/ Contains(dgram.msg, Marker)
    \/ /\ CurDev \in DOMAIN device_last_millis
       /\ dgram.millis < 600000
       /\ device_last_millis[CurDev] > 1800000
       /\ dgram.millis < device_last_millis[CurDev]

\* C12: what the handling of a parsed record persists does not depend on
\* whether the record is displayed: shown or suppressed, it is written once
\* to the consolidated log when one is open (the line its format gives, or
\* the write fails and is reported), and with per-device logging on it sets
\* lastSeenMillis, starts a session exactly on the first message of the
\* device or an inferred reboot, and is appended once to the session file;
\* with per-device logging off no session state and no file changes.
C12_SuppressionKeepsPersistence ==
    [][(HandleStep /\ dgram.ok)
       => /\ IF file_handle = "open"
             THEN \/ /\ clog' = Append(clog, FormatLogEntry(Parse(dgram), dgram, clock))
                     /\ CountEv(ev', "log_write") = 1
                  \/ /\ clog' = clog
                     /\ CountEv(ev', "log_write_failed") = 1
                     /\ "error_log_write" \in {out'[i].k : i \in 1..Len(out')}
             ELSE clog' = clog /\ CountEv(ev', "log_write") = 0
          /\ IF auto_device_logs
             THEN /\ device_last_millis'[CurDev] = dgram.millis
                  /\ sessNo'[CurDev] =
                        (IF CurDev \in DOMAIN sessNo THEN sessNo[CurDev] ELSE 0)
                        + (IF CurDev \notin DOMAIN sessNo \/ RebootInferred
                           THEN 1 ELSE 0)
                  /\ CountEv(ev', "write") = 1
                  /\ disk'[CurPath(CurDev)][Len(disk'[CurPath(CurDev)])] =
                        ExpectedRecord(sessNo'[CurDev])
             ELSE /\ disk' = disk
                  /\ device_files' = device_files
                  /\ device_last_millis' = device_last_millis
                  /\ device_session_ids' = device_session_ids]_vars

\* C12 witness: a suppressed record (debug, threshold info) was written to
\* the consolidated log and to its device's session file
C12_Witness ==
    /\ pc = "loop"
    /\ scenario = "log"
    /\ dgram.ok
    /\ dgram.level = "DEBUG"
    /\ ~Displayed(ev)
    /\ stats.filtered_messages = 1
    /\ CountEv(ev, "write") = 1
    /\ CountEv(ev, "log_write") = 1
    /\ Len(clog) = 2
    /\ clog[2].millis = dgram.millis

\* the line the handling of the datagram displayed
ShownLine == out'[Len(out')]

\* a displayed record with a delta: the delta is not negative and is the
\* record's millis minus the millis of the record of the same device that was
\* displayed last
DeltaSinceLastDisplayed ==
    (HandleStep /\ Displayed(ev'))
    => /\ ShownLine.k = "display"
       /\ ShownLine.millis = dgram.millis
       /\ ShownLine.hasDelta
          => /\ ShownLine.delta >= 0
             /\ CurDev \in DOMAIN shown
             /\ ShownLine.delta = dgram.millis - shown[CurDev]

\* C13, as amended: a delta that is displayed is not negative and is the
\* record's millis minus the millis of the most recent displayed record of
\* the same device; an unparsed datagram never changes the last-displayed
\* values, and a suppressed record changes them only when the session
\* tracker infers a reboot from it, which clears the value of its device.
C13_DeltaSinceDisplayedOrReset ==
    [][/\ DeltaSinceLastDisplayed
       /\ (HandleStep /\ ~dgram.ok)
          => device_last_display_millis' = device_last_display_millis
       /\ (HandleStep /\ dgram.ok /\ ~Displayed(ev'))
          => IF Tracked /\ RebootInferred
             THEN device_last_display_millis' = Pop(device_last_display_millis, CurDev)
             ELSE device_last_display_millis' = device_last_display_millis]_vars

\* C13 as stated: a delta that is displayed is not negative and is the
\* record's millis minus the millis of the most recent displayed record of
\* the same device, and no suppressed or unparsed datagram changes the
\* last-displayed values.
C13_SuppressedNeverChangeLastDisplayed ==
    [][/\ DeltaSinceLastDisplayed
       /\ (HandleStep /\ ~Displayed(ev'))
          => device_last_display_millis' = device_last_display_millis]_vars

\* C13 witness: 50000 displayed, 5000 received but suppressed, then 60000
\* displayed with the delta 10000
C13_Witness ==
    /\ pc = "loop"
    /\ scenario = "display"
    /\ message_count = 3
    /\ stats.filtered_messages = 1
    /\ Displayed(ev)
    /\ dgram.millis = 60000
    /\ out[Len(out)].hasDelta
    /\ out[Len(out)].delta = 10000

\* C13 witness: a suppressed restart message cleared the last-displayed
\* value of a device of which a record had been displayed
C13_WitnessReset ==
    /\ pc = "loop"
    /\ scenario = "display"
    /\ dgram.ok
    /\ ~Displayed(ev)
    /\ Contains(dgram.msg, Marker)
    /\ DevB \in DOMAIN shown
    /\ DevB \notin DOMAIN device_last_display_millis

\* the handling of the datagram reached the display filter, and the record
\* was not displayed
FilterSuppressed ==
    /\ dgram.ok
    /\ CountEv(ev', "raise") = 0
    /\ ~Displayed(ev')

\* 1 when b, else 0
One(b) == IF b THEN 1 ELSE 0

\* C14: outside the handling of a datagram total_messages is the number of
\* datagrams received; the handling of a datagram adds one to
\* total_messages, one to parsed_messages exactly when the datagram matched
\* the grammar, and one to filtered_messages exactly when the display filter
\* suppressed the record (threshold warning: its level is below warning);
\* no other step changes these counters.
C14_CountersFollowStages ==
    /\ [](pc # "handle" => stats.total_messages = message_count)
    /\ [][IF HandleStep
          THEN /\ stats'.total_messages = stats.total_messages + 1
               /\ stats'.parsed_messages = stats.parsed_messages + One(dgram.ok)
               /\ stats'.filtered_messages =
                     stats.filtered_messages + One(FilterSuppressed)
               /\ FilterSuppressed
                  <=> /\ dgram.ok
                      /\ CountEv(ev', "raise") = 0
                      /\ Rank(dgram.level) < Rank("warning")
          ELSE /\ stats'.total_messages = stats.total_messages
               /\ stats'.parsed_messages = stats.parsed_messages
               /\ stats'.filtered_messages = stats.filtered_messages]_vars

\* C14 witness: three datagrams handled, one unparsed, one suppressed and
\* one displayed
C14_Witness ==
    /\ pc = "loop"
    /\ scenario = "base"
    /\ message_count = 3
    /\ stats.total_messages = 3
    /\ stats.parsed_messages = 2
    /\ stats.filtered_messages = 1
    /\ "raw" \in printed
    /\ "display" \in printed

\* C15: the handling of a datagram adds one to logged_messages exactly when
\* it wrote the datagram to a sink, the per-device file or the consolidated
\* log: also when the per-device file is the only sink written, and not when
\* the write failed.
C15_PersistedCountsWrites ==
    [][HandleStep
       => stats'.logged_messages =
             stats.logged_messages
             + One(CountEv(ev', "write") + CountEv(ev', "log_write") > 0)]_vars

KindsPrinted == {out'[i].k : i \in 1..Len(out')}

\* C17: a datagram that does not match the grammar is handled without an
\* exception: it counts as received and not as parsed, touches no session
\* state and no per-device file, is written to the consolidated log when one
\* is open, in each format as a line that holds its text (or the write fails
\* and is reported), and is displayed as a raw line.
C17_UnparsedIsLoggedAndShownRaw ==
    [][(HandleStep /\ ~MatchPattern(Strip(message)).ok)
       => /\ ~dgram.ok
          /\ CountEv(ev', "raise") = 0
          /\ "error_receiving" \notin KindsPrinted
          /\ stats'.total_messages = stats.total_messages + 1
          /\ stats'.parsed_messages = stats.parsed_messages
          /\ <<device_files, device_last_millis, device_session_ids, disk>>' =
                <<device_files, device_last_millis, device_session_ids, disk>>
          /\ Len(ev') > 0
          /\ ev'[Len(ev')].e = "display_raw"
          /\ Len(out') > 0
          /\ out'[Len(out')].k = "raw"
          /\ IF file_handle = "open"
             THEN \/ /\ Len(clog') = Len(clog) + 1
                     /\ SubSeq(clog', 1, Len(clog)) = clog
                     /\ clog'[Len(clog')].fmt =
                           (IF log_format = "structured" THEN "structured_raw" ELSE "raw")
                     /\ Contains(clog'[Len(clog')].text, message)
                  \/ /\ clog' = clog
                     /\ "error_log_write" \in KindsPrinted
             ELSE clog' = clog]_vars

\* C17 witness: a near miss of the grammar was written to a json log as a
\* raw line and displayed raw
C17_Witness ==
    /\ pc = "loop"
    /\ scenario = "log"
    /\ log_format = "json"
    /\ message = MissingColon.msg
    /\ ~dgram.ok
    /\ Len(clog) = 2
    /\ clog[2].fmt = "raw"
    /\ ev[Len(ev)].e = "display_raw"
    /\ stats.parsed_messages = 0

\* C18: after a parsed datagram is handled, the device id of its record is
\* the lower-case form of the hexadecimal run of its text, or "unknown" when
\* the text has none, and the session state is keyed, and the per-device
\* files are named, by lower-case device ids only: texts that differ only in
\* the case of the device id are one device.
C18_DeviceIdsLowerCase ==
    (pc = "loop" /\ dgram.ok)
    => /\ Parse(dgram).device =
             (IF dgram.dev = <<>> THEN Unknown ELSE LowerSeq(dgram.dev))
       /\ \A id \in DOMAIN device_last_millis \cup DOMAIN device_session_ids :
             id = LowerSeq(id)
       /\ \A path \in DOMAIN disk : path = LowerSeq(path)

\* the datagrams of the grammar whose text is the text received last
Received == {d \in Net(scenario) : d.ok /\ Wire(d) = message}

\* C19 (amended): for every text of the grammar parsing succeeds and yields
\* the priority, timestamp, millis and core of the text, its level in lower
\* case, and its function and message without the white space around them.
C19_ParseYieldsFields ==
    pc \in {"handle", "loop"}
    => \A d \in Received :
          /\ dgram.ok
          /\ Parse(dgram).matched
          /\ Parse(dgram).priority = d.priority
          /\ Parse(dgram).timestamp = d.timestamp
          /\ Parse(dgram).millis = d.millis
          /\ Parse(dgram).level = LowerTok(d.level)
          /\ Parse(dgram).core = d.core
          /\ Parse(dgram).function = Strip(d.func)
          /\ Parse(dgram).message = Strip(d.msg)

\* C19 as stated: for every text of the grammar parsing succeeds and yields
\* priority, timestamp, millis, level, core, function and message equal to
\* the literal values of the text.
C19_ParseYieldsLiterals ==
    pc \in {"handle", "loop"}
    => \A d \in Received :
          /\ dgram.ok
          /\ Parse(dgram).matched
          /\ Parse(dgram).priority = d.priority
          /\ Parse(dgram).timestamp = d.timestamp
          /\ Parse(dgram).millis = d.millis
          /\ Parse(dgram).level = d.level
          /\ Parse(dgram).core = d.core
          /\ Parse(dgram).function = d.func
          /\ Parse(dgram).message = d.msg

\* C19 witness: the text with priority 16, the other timestamp, core 1 and a
\* message that holds a colon was parsed and counted as parsed
C19_Witness ==
    /\ pc = "loop"
    /\ scenario = "parser"
    /\ message = Wire(OtherFields)
    /\ Parse(dgram).priority = 16
    /\ Parse(dgram).timestamp = "2025-08-08T18:36:33.275Z"
    /\ Parse(dgram).millis = 100000
    /\ Parse(dgram).level = "debug"
    /\ Parse(dgram).core = 1
    /\ Parse(dgram).function = FuncMeter
    /\ Parse(dgram).message = Reading
    /\ stats.parsed_messages = stats.total_messages

\* C19 witness: a text without device id and with a level that is not one of
\* the six was parsed
C19_WitnessNoDevice ==
    /\ pc = "loop"
    /\ scenario = "parser"
    /\ dgram.ok
    /\ dgram.dev = <<>>
    /\ Parse(dgram).device = Unknown
    /\ Parse(dgram).level = "trace"

\* what SYSLOG_PATTERN finds in a line of the consolidated log once the
\* receipt time and the source address are taken off its front
Reparsed(e) ==
    MatchPattern(Strip(SubSeq(e.text, Len(LinePrefix(e.received_at)) + 1, Len(e.text))))

\* C20: every structured line that the consolidated log holds for a parsed
\* record is, without its receipt-time and address prefix, a text of the
\* grammar, and parsing it yields the field values of the record.
C20_StructuredLineReparses ==
    \A i \in 1..Len(clog) :
       clog[i].fmt = "structured"
       => /\ Reparsed(clog[i]).ok
          /\ Parse(Reparsed(clog[i])).timestamp = clog[i].timestamp
          /\ Parse(Reparsed(clog[i])).device = clog[i].device
          /\ Parse(Reparsed(clog[i])).millis = clog[i].millis
          /\ Parse(Reparsed(clog[i])).level = LowerTok(clog[i].level)
          /\ Parse(Reparsed(clog[i])).core = clog[i].core
          /\ Parse(Reparsed(clog[i])).function = clog[i].func
          /\ Parse(Reparsed(clog[i])).message = clog[i].msg
          /\ Parse(Reparsed(clog[i])).priority = clog[i].priority

\* the device of the datagram has a session whose file is not open: the
\* file could not be opened when the session asked for it
SessionWithoutFile ==
    /\ Tracked
    /\ CurDev \in DOMAIN device_session_ids
    /\ SessionKey(CurDev, device_session_ids[CurDev]) \notin DOMAIN device_files

\* C21: once the open of a device's session file has failed, a message of
\* that device that starts no new session makes no attempt to open a file
\* and writes no record, and the listener keeps running.
C21_FailedOpenSkipsUntilRotation ==
    [][(/\ HandleStep
        /\ SessionWithoutFile
        /\ "error_device_file" \in printed
        /\ ~IsReboot(device_last_millis, Parse(dgram)))
       => /\ CountEv(ev', "open") = 0
          /\ CountEv(ev', "open_failed") = 0
          /\ CountEv(ev', "write") = 0
          /\ device_files' = device_files
          /\ disk' = disk
          /\ running' = running]_vars

\* C22: whatever file operation fails while a datagram is handled (the
\* creation of the log directory, the open of the per-device file, the write
\* of its header or of the record, the write to the consolidated log), the
\* handling ends in the loop with the flag and the consolidated log's handle
\* as they were and the datagram counted, and the loop test of a running
\* listener goes on to the next receive.
C22_IoFailureKeepsListening ==
    [][/\ (pc = "handle" /\ pc' # pc)
          => /\ pc' = "loop"
             /\ running' = running
             /\ file_handle' = file_handle
             /\ stats'.total_messages = stats.total_messages + 1
       /\ (pc = "loop" /\ pc' # pc /\ running) => pc' = "recv"]_vars

\* C22 witness: after a datagram whose handler raised on the log directory
\* and one whose file could not be opened, a third datagram was received,
\* written to both sinks and displayed
C22_Witness ==
    /\ pc = "loop"
    /\ scenario = "io"
    /\ running
    /\ {"error_receiving", "error_device_file"} \subseteq printed
    /\ stats.total_messages = 3
    /\ ~Failed(ev)
    /\ CountEv(ev, "write") = 1
    /\ CountEv(ev, "log_write") = 1
    /\ Displayed(ev)

\* C23: when the set-up of the transport fails, the error is reported and
\* the process exits at once: the running flag is never set, the loop is
\* never entered, no datagram is received or handled, and nothing is
\* written to the consolidated log.
C23_SetupFailureExits ==
    /\ [][(pc = "setup" /\ pc' # pc /\ "error_setup" \in KindsPrinted)
          => /\ pc' = "exited"
             /\ ~running'
             /\ stats' = stats
             /\ clog' = clog
             /\ file_handle' # "open"]_vars
    /\ []("error_setup" \in printed
          => /\ pc = "exited"
             /\ ~running
             /\ printed \cap {"listening", "loop_ended"} = {}
             /\ message_count = 0
             /\ stats.total_messages = 0
             /\ stats.start_time = -1)

\* C23 witness: the process has exited on a failed set-up
C23_Witness ==
    /\ pc = "exited"
    /\ "error_setup" \in printed
    /\ out = <<Notice("error_setup", <<>>)>>
    /\ ~running
    /\ message_count = 0

\* C24: in every per-device file, the file of one session, the millis of
\* the records do not decrease from one record to the next.
C24_MillisNonDecreasingInSession ==
    \A path \in DOMAIN disk :
       \A i, j \in 1..Len(disk[path]) :
          (i < j /\ disk[path][i].k = "record" /\ disk[path][j].k = "record")
          => disk[path][i].millis <= disk[path][j].millis

\* C25 (amended): with per-device logging on, after any parsed message of a
\* device is handled, whichever branch was taken and whether or not a file
\* operation failed, the device's last seen millis are that message's
\* millis, and no other device's value has changed.
C25_LastSeenIsMessageMillis ==
    [][(HandleStep /\ Tracked)
       => /\ CurDev \in DOMAIN device_last_millis'
          /\ device_last_millis'[CurDev] = Parse(dgram).millis
          /\ \A d \in DOMAIN device_last_millis \ {CurDev} :
                /\ d \in DOMAIN device_last_millis'
                /\ device_last_millis'[d] = device_last_millis[d]]_vars

\* C25 as stated: after any parsed message of a device is handled, the
\* device's last seen millis are that message's millis.
C25_LastSeenAfterAnyParsed ==
    [][(HandleStep /\ dgram.ok)
       => /\ CurDev \in DOMAIN device_last_millis'
          /\ device_last_millis'[CurDev] = Parse(dgram).millis]_vars

\* C25 witness: a reboot was inferred from the reset of the millis, the
\* open of the new session's file failed, and the last seen millis are the
\* message's
C25_Witness ==
    /\ pc = "loop"
    /\ scenario = "base"
    /\ dgram.ok
    /\ ~ByMarker(Parse(dgram))
    /\ CurDev \in DOMAIN byReboot
    /\ byReboot[CurDev]
    /\ CountEv(ev, "open_failed") = 1
    /\ device_last_millis[CurDev] = 5000
    /\ dgram.millis = 5000

\* C25 witness: the handler raised on the log directory after the first
\* message of a device, whose millis were recorded
C25_WitnessRaise ==
    /\ pc = "loop"
    /\ dgram.ok
    /\ CountEv(ev, "raise") = 1
    /\ DOMAIN device_last_millis = {CurDev}
    /\ device_last_millis[CurDev] = dgram.millis
    /\ stats.total_messages = 1

\* the lines f hold the header line that gives the reason of a reboot
HasRebootLine(f) == \E i \in 1..Len(f) : f[i].k = "header_reboot"

\* C26: whenever the header block of a per-device file is written, it holds
\* the reboot reason exactly if the session the file belongs to began with
\* an inferred reboot, also when the file is opened by a later message than
\* the one that began the session.
C26_HeaderReasonIffRebootSession ==
    [][(HandleStep /\ Tracked /\ CountEv(ev', "header") = 1)
       => (HasRebootLine(disk'[CurPath(CurDev)]) <=> byReboot'[CurDev])]_vars

\* C27: the first message ever seen from a device, when it does not hold
\* the marker phrase, begins the device's first session and is not taken
\* for a reboot, whatever its millis: no reboot is reported, the header of
\* the file it creates has no reboot reason, and its display has no delta.
C27_FirstMessageIsNoReboot ==
    [][(/\ HandleStep
        /\ Tracked
        /\ CurDev \notin DOMAIN device_last_millis
        /\ ~ByMarker(Parse(dgram)))
       => /\ CurDev \in DOMAIN device_session_ids'
          /\ sessNo'[CurDev] = 1
          /\ ~byReboot'[CurDev]
          /\ "reboot_detected" \notin KindsPrinted
          /\ CountEv(ev', "close") = 0
          /\ CountEv(ev', "header") = 1
             => /\ ~HasRebootLine(disk'[CurPath(CurDev)])
                /\ Len(disk'[CurPath(CurDev)]) = 4
          /\ Displayed(ev') => ~ShownLine.hasDelta]_vars

\* C27 witness: the first message of a device came with millis below ten
\* minutes and created a file whose header has no reboot reason
C27_Witness ==
    /\ pc = "loop"
    /\ scenario = "reboot"
    /\ stats.total_messages = 1
    /\ dgram.millis = 5000
    /\ sessNo = (DevB :> 1)
    /\ CountEv(ev, "header") = 1
    /\ \E path \in DOMAIN disk : Len(disk[path]) = 4 /\ ~HasRebootLine(disk[path])
    /\ "reboot_detected" \notin printed

\* C28: when the session tracker infers a reboot of a device from a
\* message, the device's last displayed millis are cleared: the message, if
\* it is displayed, carries no delta, and if it is suppressed the device has
\* no last displayed millis afterwards; a device without last displayed
\* millis gets them only by the display of one of its records, and that
\* record carries no delta.
C28_NoDeltaAcrossBoundary ==
    [][/\ (HandleStep /\ Tracked /\ RebootInferred)
          => IF Displayed(ev')
             THEN /\ ~ShownLine.hasDelta
                  /\ device_last_display_millis'[CurDev] = dgram.millis
             ELSE CurDev \notin DOMAIN device_last_display_millis'
       /\ (HandleStep /\ Displayed(ev')
           /\ CurDev \notin DOMAIN device_last_display_millis)
          => ~ShownLine.hasDelta
       /\ \A d \in DOMAIN device_last_display_millis'
                   \ DOMAIN device_last_display_millis :
             HandleStep /\ Displayed(ev') /\ d = CurDev]_vars

\* C28 witness: a record displayed, a suppressed message from which a reboot
\* was inferred, then the record with millis 60000 displayed without delta
C28_Witness ==
    /\ pc = "loop"
    /\ scenario = "display"
    /\ auto_device_logs
    /\ message_count = 3
    /\ stats.filtered_messages = 1
    /\ sessNo = (DevB :> 2)
    /\ byReboot[DevB]
    /\ dgram.millis = 60000
    /\ Displayed(ev)
    /\ out[Len(out)].k = "display"
    /\ ~out[Len(out)].hasDelta
    /\ CountEv(ev, "open") = 0

\* the stage of the handler an event belongs to: parse, session update
\* (with the opening of the session's file), write to the per-device file,
\* write to the consolidated log, display
StageOf(e) ==
    CASE e = "parse" -> 1
      [] e \in {"track", "close", "open", "open_failed", "header", "raise"} -> 2
      [] e \in {"write", "write_failed", "flush"} -> 3
      [] e \in {"log_write", "log_write_failed"} -> 4
      [] OTHER -> 5

\* the kinds of the events e, in their order
Kinds(e) == [i \in 1..Len(e) |-> e[i].e]

\* C29: a datagram is received only when every datagram received before has
\* been handled, and the handler of a parsed datagram goes through its
\* stages in the order parse, session update, write to the per-device file,
\* display; when the handler is left before the write (the log directory
\* cannot be created) the filter and the display are not reached.
C29_StagesInOrder ==
    /\ [](/\ pc = "recv" => stats.total_messages = message_count
          /\ pc = "handle" => stats.total_messages + 1 = message_count)
    /\ [][HandleStep
          => /\ \A i, j \in 1..Len(ev') :
                   i < j => StageOf(ev'[i].e) <= StageOf(ev'[j].e)
             /\ dgram.ok => (Len(ev') > 0 /\ ev'[1].e = "parse")
             /\ CountEv(ev', "raise") > 0
                => /\ stats'.filtered_messages = stats.filtered_messages
                   /\ ~Displayed(ev')
                   /\ device_last_millis'[CurDev] = dgram.millis]_vars

\* C29 witness: the first message of a device went through every stage, the
\* display last
C29_Witness ==
    /\ pc = "loop"
    /\ scenario = "io"
    /\ Kinds(ev) = <<"parse", "track", "open", "header", "write", "flush",
                     "log_write", "display">>
    /\ stats.total_messages = message_count

\* the last line of the file of the device's current session, after a step
LastLine(d) == disk'[CurPath(d)][Len(disk'[CurPath(d)])]

\* C30: SIGINT changes the flag and nothing else of the listener's state;
\* a datagram whose handling is under way when the flag is cleared is
\* handled in full (counted, its session updated, its record written to
\* the per-device file and the consolidated log, displayed if the filter
\* passes it), and the loop is left only from its test, afterwards.
C30_SignalChangesOnlyFlag ==
    /\ [][/\ (running /\ ~running')
             => /\ pc' = pc
                /\ UNCHANGED <<message_count, message, dgram, config, log_file,
                               file_handle, session, stats, clog, clock, ev>>
          /\ (pc = "handle" /\ pc' # pc /\ ~running)
             => /\ pc' = "loop"
                /\ stats'.total_messages = stats.total_messages + 1
                /\ dgram.ok => stats'.parsed_messages = stats.parsed_messages + 1
                /\ Tracked => device_last_millis'[CurDev] = dgram.millis
                /\ (Tracked /\ ~Failed(ev'))
                   => /\ CountEv(ev', "write") = 1
                      /\ LastLine(CurDev).k = "record"
                      /\ LastLine(CurDev).millis = dgram.millis
                /\ (file_handle = "open" /\ CountEv(ev', "raise") = 0)
                   => CountEv(ev', "log_write") + CountEv(ev', "log_write_failed") = 1
                /\ (/\ dgram.ok
                    /\ CountEv(ev', "raise") = 0
                    /\ ShouldShow(log_filter, Parse(dgram).level, Parse(dgram).function))
                   => Displayed(ev')
                /\ ~dgram.ok => (Len(ev') > 0 /\ ev'[Len(ev')].e = "display_raw")
          /\ (pc' = "ended" /\ pc # "ended") => (pc = "loop" /\ ~running)]_vars
    /\ [](pc \in {"ended", "exited"} => stats.total_messages = message_count)

\* C30 witness: the flag was cleared before the handler of the first
\* datagram ran; the datagram went through every stage and the loop has not
\* ended yet
C30_Witness ==
    /\ pc = "loop"
    /\ scenario = "io"
    /\ ~running
    /\ "interrupt" \in printed
    /\ "loop_ended" \notin printed
    /\ stats.total_messages = 1
    /\ message_count = 1
    /\ Kinds(ev) = <<"parse", "track", "open", "header", "write", "flush",
                     "log_write", "display">>
    /\ Len(clog) = 2

\* the level is one of the six of LEVELS, whatever its letter case
Recognized(l) == \E i \in 1..Len(LevelOrder) : LevelOrder[i] = LowerTok(l)

\* the function field holds one of the filter's excluded substrings
Excluded(func) ==
    \E x \in log_filter.exclude_files \cup log_filter.exclude_functions :
       Contains(LowerSeq(func), x)

\* C31: a parsed record whose level is not one of the six recognized levels
\* is ordered by the display filter as a verbose record is: it is displayed
\* when the threshold is verbose (and its function is not excluded) and
\* suppressed, and counted as filtered, under each of the five higher
\* thresholds; displayed or suppressed, it is written to the consolidated
\* log (when the log could be opened) and appended to the session file of
\* its device.
C31_UnknownLevelIsLowest ==
    [][(HandleStep /\ dgram.ok /\ ~Recognized(dgram.level))
       => /\ Displayed(ev')
             <=> (log_filter.min_level_value = 0 /\ ~Excluded(dgram.func))
          /\ \A th \in Thresholds \ {"verbose"} :
                log_filter.min_level_value = Rank(th) - 1
                => /\ ~Displayed(ev')
                   /\ stats'.filtered_messages = stats.filtered_messages + 1
          /\ Displayed(ev') => stats'.filtered_messages = stats.filtered_messages
          /\ clog' = IF file_handle = "open"
                     THEN Append(clog, FormatLogEntry(Parse(dgram), dgram, clock))
                     ELSE clog
          /\ CountEv(ev', "write") = 1
          /\ disk'[CurPath(CurDev)][Len(disk'[CurPath(CurDev)])] =
                ExpectedRecord(sessNo'[CurDev])]_vars

\* C31 witness: a TRACE record was suppressed under the threshold debug and
\* is the last line of the consolidated log and of its device's file
C31_Witness ==
    /\ pc = "loop"
    /\ scenario = "levels"
    /\ log_filter = MakeFilter("debug", {}, {})
    /\ dgram.level = "TRACE"
    /\ ~Displayed(ev)
    /\ stats.filtered_messages = 1
    /\ Len(clog) = 2
    /\ clog[2].millis = dgram.millis
    /\ \E p \in DOMAIN disk :
          /\ disk[p][Len(disk[p])].k = "record"
          /\ disk[p][Len(disk[p])].millis = dgram.millis

\* C31 witness: a TRACE record was displayed under the threshold verbose
C31_WitnessShown ==
    /\ pc = "loop"
    /\ scenario = "levels"
    /\ log_filter = MakeFilter("verbose", {}, {})
    /\ dgram.level = "TRACE"
    /\ Displayed(ev)
    /\ stats.filtered_messages = 0
    /\ Len(clog) = 2

\* C32: with per-device logging off no run creates or opens a per-device
\* file, creates the log directory or allocates a session id; and what the
\* handling of a datagram does to the counters total, parsed and filtered,
\* to the consolidated log and to the choice between displaying and
\* suppressing is the same function of the datagram with per-device logging
\* off as with it on (threshold info).
C32_DisabledDeviceLogsTouchNoFile ==
    /\ [](~auto_device_logs
          => /\ device_files = EmptyDict
             /\ device_session_ids = EmptyDict
             /\ device_last_millis = EmptyDict
             /\ disk = EmptyDict
             /\ ~logs_dir
             /\ nOpens = 0
             /\ "created" \notin printed)
    /\ [][HandleStep
          => /\ stats'.total_messages = stats.total_messages + 1
             /\ stats'.parsed_messages = stats.parsed_messages + One(dgram.ok)
             /\ stats'.filtered_messages =
                   stats.filtered_messages
                   + One(dgram.ok /\ Rank(dgram.level) < Rank("info"))
             /\ Displayed(ev') <=> (dgram.ok /\ Rank(dgram.level) >= Rank("info"))
             /\ IF file_handle = "open"
                THEN \/ clog' = Append(clog, FormatLogEntry(Parse(dgram), dgram, clock))
                     \/ /\ clog' = clog
                        /\ CountEv(ev', "log_write_failed") = 1
                ELSE clog' = clog]_vars

\* C32 witness: per-device logging off; a displayed, a suppressed and an
\* unparsed datagram were handled and written to the consolidated log, and
\* there is no file and no session
C32_Witness ==
    /\ pc = "loop"
    /\ scenario = "log"
    /\ ~auto_device_logs
    /\ stats.total_messages = 3
    /\ stats.parsed_messages = 2
    /\ stats.filtered_messages = 1
    /\ "display" \in printed
    /\ Len(clog) = 4
    /\ disk = EmptyDict
    /\ device_session_ids = EmptyDict

\* the datagram in dgram is a continuation: no marker phrase, no reboot
\* inferred from the millis, and its device has a session whose file is open
Continuation ==
    /\ Tracked
    /\ ~RebootInferred
    /\ CurDev \in DOMAIN device_session_ids
    /\ SessionKey(CurDev, device_session_ids[CurDev]) \in DOMAIN device_files

\* the path of the file of the device's session, in the state before a step
PathOf(d) == FilePath(SessionKey(d, device_session_ids[d]))

\* C33: the handling of a continuation message leaves every session id and
\* every open handle as it was: no file is opened, closed or created, no
\* start of a session is announced, and the message's record is appended to
\* the file of the device's session, whose last line is the record of the
\* device's previous message; no other file changes.
C33_ContinuationKeepsSession ==
    [][(HandleStep /\ Continuation)
       => /\ device_session_ids' = device_session_ids
          /\ device_files' = device_files
          /\ sessNo' = sessNo
          /\ nOpens' = nOpens
          /\ CountEv(ev', "open") + CountEv(ev', "close")
                + CountEv(ev', "open_failed") + CountEv(ev', "raise") = 0
          /\ KindsPrinted \cap {"created", "new_device", "reboot_detected"} = {}
          /\ DOMAIN disk' = DOMAIN disk
          /\ disk[PathOf(CurDev)][Len(disk[PathOf(CurDev)])].k = "record"
          /\ disk[PathOf(CurDev)][Len(disk[PathOf(CurDev)])].dev = CurDev
          /\ disk[PathOf(CurDev)][Len(disk[PathOf(CurDev)])].millis =
                device_last_millis[CurDev]
          /\ disk'[PathOf(CurDev)] =
                Append(disk[PathOf(CurDev)], ExpectedRecord(sessNo[CurDev]))
          /\ \A q \in DOMAIN disk \ {PathOf(CurDev)} : disk'[q] = disk[q]]_vars

\* C33 witness: the second message of 001122334455, forty minutes of uptime
\* after the first, was appended to the one file opened so far
C33_Witness ==
    /\ pc = "loop"
    /\ scenario = "base"
    /\ dgram.ok
    /\ dgram.millis = 2000000
    /\ nOpens = 1
    /\ sessNo = Put(EmptyDict, DevB, 1)
    /\ \E p \in DOMAIN disk :
          /\ Len(disk[p]) = 5
          /\ disk[p][4].millis = 50000
          /\ disk[p][5].millis = 2000000

\* the device ids the listener holds state of
KnownDevices ==
    DOMAIN device_last_millis \cup DOMAIN device_session_ids
    \cup DOMAIN device_last_display_millis

\* the devices other than the one the datagram in dgram comes from
OtherDevices == IF dgram.ok THEN KnownDevices \ {CurDev} ELSE KnownDevices

\* d has the same entry, or none, in the map before and after the step
SameEntry(before, after, d) ==
    /\ d \in DOMAIN after <=> d \in DOMAIN before
    /\ d \in DOMAIN before => after[d] = before[d]

\* C34: the handling of a message changes the state of no device but its
\* own: every other device keeps its session id, its lastSeenMillis, its
\* lastDisplayMillis and its open handle, no handle of another device is
\* closed by a rotation, and the file of another device's session is not
\* written.
C34_OtherDevicesUntouched ==
    [][HandleStep
       => \A d \in OtherDevices :
             /\ SameEntry(device_session_ids, device_session_ids', d)
             /\ SameEntry(device_last_millis, device_last_millis', d)
             /\ SameEntry(device_last_display_millis, device_last_display_millis', d)
             /\ SameEntry(sessNo, sessNo', d)
             /\ \A k \in DOMAIN device_files :
                   StartsWith(k, d \o <<"_">>)
                   => /\ k \in DOMAIN device_files'
                      /\ device_files'[k] = device_files[k]
                      /\ disk'[FilePath(k)] = disk[FilePath(k)]
                      /\ \A i \in 1..Len(ev') :
                            ev'[i].e = "close" => ev'[i].key # k]_vars

\* C34 witness: 001122334455 was rotated into its second session while
\* 588c81c47ad8 had a session with an open handle, which it still has
C34_Witness ==
    /\ pc = "loop"
    /\ scenario = "display"
    /\ CurDev = DevB
    /\ CountEv(ev, "close") = 1
    /\ DevA \in DOMAIN sessNo
    /\ sessNo[DevB] = 2
    /\ DevA \in DOMAIN device_last_display_millis
    /\ SessionKey(DevA, device_session_ids[DevA]) \in DOMAIN device_files
    /\ Cardinality(DOMAIN device_files) = 2

\* C35: the handling of a datagram that is not parsed leaves the state of
\* every device as it was (session ids, lastSeenMillis, lastDisplayMillis,
\* the open handles and the files) and adds nothing to the counters parsed
\* and filtered: it starts no session and ends none.
C35_UnparsedTouchesNoDevice ==
    [][(HandleStep /\ ~dgram.ok)
       => /\ device_session_ids' = device_session_ids
          /\ device_last_millis' = device_last_millis
          /\ device_last_display_millis' = device_last_display_millis
          /\ device_files' = device_files
          /\ disk' = disk
          /\ sessNo' = sessNo
          /\ nOpens' = nOpens
          /\ stats'.parsed_messages = stats.parsed_messages
          /\ stats'.filtered_messages = stats.filtered_messages
          /\ \A i \in 1..Len(ev') :
                ev'[i].e \notin {"parse", "track", "open", "close", "write"}]_vars

\* C35 witness: a near miss of the grammar was handled after a record of
\* 001122334455 had been written and displayed; the device's session, its
\* millis and its handle are there as they were
C35_Witness ==
    /\ pc = "loop"
    /\ scenario = "parser"
    /\ ~dgram.ok
    /\ message = NoFraction.msg
    /\ stats.total_messages = 2
    /\ stats.parsed_messages = 1
    /\ stats.filtered_messages = 0
    /\ ev[Len(ev)].e = "display_raw"
    /\ device_last_millis = Put(EmptyDict, DevB, 50000)
    /\ device_last_display_millis = Put(EmptyDict, DevB, 50000)
    /\ sessNo = Put(EmptyDict, DevB, 1)
    /\ Cardinality(DOMAIN device_files) = 1

\* C36: when the handling of a parsed record fails to persist it to the
\* per-device file (creating the log directory, opening the file or writing
\* to it fails), the record is still written to the consolidated log, when
\* one is open, and still displayed or counted as filtered.
C36_DeviceFileFailureKeepsOtherSinks ==
    [][(HandleStep /\ Tracked /\ Failed(ev'))
       => /\ file_handle = "open"
             => CountEv(ev', "log_write") + CountEv(ev', "log_write_failed") = 1
          /\ \/ Displayed(ev')
             \/ stats'.filtered_messages = stats.filtered_messages + 1]_vars

\* C37: with the consolidated log open, the handling of every datagram,
\* displayed, suppressed or unparsed, appends exactly one entry to the log
\* (unless the write to the log itself fails); in the json format the entry
\* of an unparsed datagram is a raw text line.
C37_EveryDatagramLoggedOnce ==
    [][(HandleStep /\ file_handle = "open" /\ CountEv(ev', "log_write_failed") = 0)
       => /\ CountEv(ev', "log_write") = 1
          /\ clog' = Append(clog, FormatLogEntry(Parse(dgram), dgram, clock))
          /\ (log_format = "json" /\ ~dgram.ok) => clog'[Len(clog')].fmt = "raw"]_vars

\* C38: in every state between the handling of two datagrams each key of
\* the map of open per-device handles is the device id, "_" and the session
\* id recorded for that device: no handle of a superseded session is in the
\* map.
C38_OpenHandlesAreCurrent ==
    \A k \in DOMAIN device_files :
       \E d \in DOMAIN device_session_ids :
          k = SessionKey(d, device_session_ids[d])

\* C38 witness: 001122334455 is in its second session, begun a second after
\* the first; two files were created and the one open handle is the second
\* session's
C38_Witness ==
    /\ pc = "loop"
    /\ scenario = "faults"
    /\ DevB \in DOMAIN sessNo
    /\ sessNo[DevB] = 2
    /\ device_session_ids[DevB] = SessionTimestamp(1)
    /\ Cardinality(DOMAIN disk) = 2
    /\ DOMAIN device_files = {SessionKey(DevB, SessionTimestamp(1))}

\* "Messages displayed" of the final report: parsed minus filtered
ReportedDisplayed == stats.parsed_messages - stats.filtered_messages

\* C39: in every reachable state filtered_messages <= parsed_messages <=
\* total_messages, so the number of displayed messages the report computes,
\* parsed minus filtered, is not negative; and no step makes a counter
\* smaller.
C39_CountersOrderedAndMonotone ==
    /\ [](/\ 0 <= stats.filtered_messages
          /\ stats.filtered_messages <= stats.parsed_messages
          /\ stats.parsed_messages <= stats.total_messages
          /\ ReportedDisplayed >= 0)
    /\ [][/\ stats'.total_messages >= stats.total_messages
          /\ stats'.parsed_messages >= stats.parsed_messages
          /\ stats'.filtered_messages >= stats.filtered_messages
          /\ stats'.logged_messages >= stats.logged_messages]_vars

\* C39 witness: three datagrams received, two of them parsed and both
\* suppressed, none displayed
C39_Witness ==
    /\ pc = "loop"
    /\ scenario = "base"
    /\ stats.total_messages = 3
    /\ stats.parsed_messages = 2
    /\ stats.filtered_messages = 2
    /\ ReportedDisplayed = 0
    /\ "raw" \in printed
    /\ "display" \notin printed

====
